---------------------------- MODULE Spec2Model ----------------------------
(***************************************************************************)
(* Model of the Listonic integration: the API client of                    *)
(* custom_components/listonic/api.py (transport with rate-limit gate and   *)
(* backoff, authentication and recovery, the resource operations) and the  *)
(* polling coordinator of custom_components/listonic/coordinator.py.       *)
(*                                                                         *)
(* Tasks are asyncio coroutines on one event loop.  A task runs without    *)
(* interruption from one suspension point to the next, so every action is  *)
(* the code a task executes between two suspension points: waiting for a   *)
(* semaphore slot, waiting for the rate-limit lock, asyncio.sleep, the     *)
(* HTTP request, and reading a response body.                              *)
(*                                                                         *)
(* The event-loop clock is read only in _wait_for_rate_limit, and only as  *)
(* elapsed = now - _last_request_time; the model keeps that difference, in *)
(* ticks of 50 ms, saturated at the minimum interval (beyond it the code   *)
(* behaves the same whatever its value).                                   *)
(***************************************************************************)
EXTENDS Integers, Sequences, FiniteSets, TLC

\* ------------------------------------------------------------ constants
MAX_AUTH_RETRIES == 1
MAX_CONCURRENT_REQUESTS == 10
\* 0.1 s, in ticks of 50 ms
MIN_REQUEST_INTERVAL == 2
MAX_BACKOFF_RETRIES == 3
\* seconds
INITIAL_BACKOFF_SECONDS == 1
MAX_BACKOFF_SECONDS == 30
\* seconds
DEFAULT_SCAN_INTERVAL == 30
\* the options key of the poll interval
CONF_SCAN_INTERVAL == "scan_interval"

\* ------------------------------------------------------------ bounds
\* tasks that exist in the model: the concurrent callers of SpecGate
NumTasks == 11
\* concurrent callers of SpecGate's scenario with retryable answers
NumRetryCallers == 3
\* distinct token strings the server hands out
NumTokens == 1

Procs == 1..NumTasks
NoToken == 0
Tokens == 1..NumTokens

Min(a, b) == IF a < b THEN a ELSE b
Max(a, b) == IF a > b THEN a ELSE b

\* ------------------------------------------------------------ the wire
Operations ==
  {"get_lists", "get_list", "get_list_items", "add_item", "update_item",
   "delete_item", "create_list", "delete_list"}

Statuses == {200, 201, 400, 401, 404, 429, 503}

\* Retry-After header values; "" is an absent (or empty) header
RetryAfterHeaders == {"", "0", "2", "soon"}

\* float(retry_after): the strings Python parses, and their values
IsFloat(h) == h \in {"0", "2"}
FloatOf(h) == CASE h = "0" -> 0 [] h = "2" -> 2 [] OTHER -> 0

\* ------------------------------------------------------------ state
VARIABLES
  token,         \* ListonicApiClient._token (NoToken: None)
  refreshToken,  \* ListonicApiClient._refresh_token
  gate,          \* _request_semaphore, _rate_limit_lock, _last_request_time
  task,          \* per task: position and locals of the running operation
  coord,         \* the coordinator: data (the snapshot), the last outcome,
                 \* update_interval, and its entry's options
  faulty         \* whether the server may answer 429/5xx or drop connections

vars == <<token, refreshToken, gate, task, coord, faulty>>

NoResult == [cls |-> "none", msg |-> "", status |-> 0]

\* the arguments of a client call: the item id and update_item's keyword
\* arguments (JNull: None; current_item is <<>> or <<item>>)
NoArgs ==
  [item_id |-> 0, is_checked |-> <<"null">>, name |-> <<"null">>,
   quantity |-> <<"null">>, unit |-> <<"null">>, description |-> <<"null">>,
   current_item |-> <<>>]

\* the running authenticate() call: the tokens held when it was called and
\* the login response it has seen (status 0: none yet)
NoLogin ==
  [tok0 |-> NoToken, rtok0 |-> NoToken, status |-> 0, text |-> "",
   access |-> NoToken, refresh |-> NoToken]

IdleTask ==
  [pc |-> "idle", role |-> "none", op |-> "none", args |-> NoArgs,
   auth |-> <<>>, login |-> NoLogin,
   payload |-> <<>>, mut |-> "none", calls |-> <<>>, idx |-> 0,
   margs |-> <<>>, log |-> <<>>, outcome |-> NoResult, raw |-> <<>>,
   attempt |-> 0,
   call |-> "none", ctx |-> "none", btry |-> 0, hdr |-> NoToken,
   status |-> 0, ra |-> "", backoff |-> 0, wait |-> 0,
   nProt |-> 0, nRecover |-> 0, nHttp |-> 0, n5xx |-> 0, slept |-> 0,
   connFailed |-> FALSE, first |-> 0, recov |-> "none", ents0 |-> <<>>,
   counted |-> FALSE, sent |-> 0,
   result |-> NoResult, value |-> <<>>, before |-> <<>>]

AbsentTask == [IdleTask EXCEPT !.pc = "absent"]

InitGate(e) ==
  [sem |-> MAX_CONCURRENT_REQUESTS, semQ |-> <<>>,
   lock |-> 0, lockQ |-> <<>>, elapsed |-> e]

\* ------------------------------------------------------------ codec
\* JSON scalars carry their Python type
JInt(n) == <<"int", n>>
JStr(x) == <<"str", x>>
JBool(b) == <<"bool", b>>
JNull == <<"null">>

\* dict.get(key, default)
Get(d, key, default) == IF key \in DOMAIN d THEN d[key] ELSE default

\* Python truth value
Truthy(v) ==
  CASE v[1] = "int" -> v[2] # 0
    [] v[1] = "str" -> v[2] # ""
    [] v[1] = "bool" -> v[2]
    [] OTHER -> FALSE

\* int("...") on the digit strings the payloads use
ParseInt(x) ==
  CASE x = "0" -> 0 [] x = "1" -> 1 [] x = "2" -> 2 [] x = "3" -> 3
    [] x = "5" -> 5 [] x = "7" -> 7 [] OTHER -> 0

\* int(v)
IntOf(v) ==
  CASE v[1] = "int" -> v[2]
    [] v[1] = "bool" -> (IF v[2] THEN 1 ELSE 0)
    [] v[1] = "str" -> ParseInt(v[2])
    [] OTHER -> 0

\* isinstance(v, int): bool is a subclass of int
IsInstanceInt(v) == v[1] \in {"int", "bool"}

\* v == n for an integer literal n
EqInt(v, n) == IsInstanceInt(v) /\ IntOf(v) = n

\* a decoder whose camelCase fallback for the quantity is misspelt
ItemFromApiAmountKey(data) ==
  LET num == Get(data, "IdAsNumber", JNull)
      checked == Get(data, "Checked", Get(data, "isChecked", JInt(0)))
  IN [id |-> IF Truthy(num)
               THEN IntOf(num)
               ELSE IntOf(Get(data, "Id", Get(data, "id", JInt(0)))),
      name |-> Get(data, "Name", Get(data, "name", JStr(""))),
      is_checked |-> IF IsInstanceInt(checked)
                       THEN JBool(Truthy(checked)) ELSE checked,
      quantity |-> Get(data, "Amount", Get(data, "amount", JNull)),
      unit |-> Get(data, "Unit", Get(data, "unit", JNull)),
      price |-> Get(data, "Price", Get(data, "price", JNull)),
      description |-> Get(data, "Description", Get(data, "description", JNull)),
      category_id |-> Get(data, "CategoryId", Get(data, "categoryId", JNull))]

\* ListonicItem.from_api
ItemFromApi(data) ==
  LET num == Get(data, "IdAsNumber", JNull)
      checked == Get(data, "Checked", Get(data, "isChecked", JInt(0)))
  IN [id |-> IF Truthy(num)
               THEN IntOf(num)
               ELSE IntOf(Get(data, "Id", Get(data, "id", JInt(0)))),
      name |-> Get(data, "Name", Get(data, "name", JStr(""))),
      is_checked |-> IF IsInstanceInt(checked)
                       THEN JBool(Truthy(checked)) ELSE checked,
      quantity |-> Get(data, "Amount", Get(data, "quantity", JNull)),
      unit |-> Get(data, "Unit", Get(data, "unit", JNull)),
      price |-> Get(data, "Price", Get(data, "price", JNull)),
      description |-> Get(data, "Description", Get(data, "description", JNull)),
      category_id |-> Get(data, "CategoryId", Get(data, "categoryId", JNull))]

\* a decoder that tests the flags by truth value instead of == 0 / == 1
ListFromApiTruthyFlags(data) ==
  LET items == Get(data, "Items", Get(data, "items", <<>>)) IN
  [id |-> IntOf(Get(data, "Id", Get(data, "id", JInt(0)))),
   name |-> Get(data, "Name", Get(data, "name", JStr(""))),
   items |-> [i \in DOMAIN items |-> ItemFromApi(items[i])],
   is_archived |->
     \/ ~Truthy(Get(data, "Active", Get(data, "active", JInt(1))))
     \/ Truthy(Get(data, "Deleted", Get(data, "deleted", JInt(0))))]

\* ListonicList.from_api
ListFromApi(data) ==
  LET items == Get(data, "Items", Get(data, "items", <<>>)) IN
  [id |-> IntOf(Get(data, "Id", Get(data, "id", JInt(0)))),
   name |-> Get(data, "Name", Get(data, "name", JStr(""))),
   items |-> [i \in DOMAIN items |-> ItemFromApi(items[i])],
   is_archived |->
     \/ EqInt(Get(data, "Active", Get(data, "active", JInt(1))), 0)
     \/ EqInt(Get(data, "Deleted", Get(data, "deleted", JInt(0))), 1)]

\* counts that compare is_checked with True / False
CountIfStrict(items, want) ==
  Cardinality({i \in DOMAIN items : items[i].is_checked = JBool(want)})

\* ListonicList.unchecked_count / checked_count
RECURSIVE CountIf(_, _)
CountIf(items, want) ==
  IF items = <<>> THEN 0
  ELSE (IF Truthy(Head(items).is_checked) = want THEN 1 ELSE 0)
       + CountIf(Tail(items), want)

UncheckedCount(lst) == CountIf(lst.items, FALSE)
CheckedCount(lst) == CountIf(lst.items, TRUE)

\* a payload built with `if is_checked:` instead of `is not None`
UpdatePayloadTruthy(a) ==
  LET sent == [Checked |-> a.is_checked, Name |-> a.name,
               Amount |-> a.quantity, Unit |-> a.unit,
               Description |-> a.description]
  IN [k \in {k \in DOMAIN sent : Truthy(sent[k])} |->
        IF k = "Checked" THEN JInt(1) ELSE sent[k]]

\* update_item: the JSON body of the PATCH
UpdatePayload(a) ==
  LET sent == [Checked |-> a.is_checked, Name |-> a.name,
               Amount |-> a.quantity, Unit |-> a.unit,
               Description |-> a.description]
  IN [k \in {k \in DOMAIN sent : sent[k] # JNull} |->
        IF k = "Checked"
          THEN JInt(IF Truthy(sent[k]) THEN 1 ELSE 0)
          ELSE sent[k]]

\* add_item: the JSON body of the POST
AddPayload(a) ==
  LET sent == [Name |-> a.name, Amount |-> a.quantity, Unit |-> a.unit]
  IN [k \in {k \in DOMAIN sent : k = "Name" \/ Truthy(sent[k])} |-> sent[k]]

\* `new or old`
OrElseTruthy(new, old) == IF Truthy(new) THEN new ELSE old

\* `new if new is not None else old`
OrElse(new, old) == IF new # JNull THEN new ELSE old

\* update_item: the item constructed on success
UpdatedItem(a) ==
  IF a.current_item # <<>>
    THEN LET cur == a.current_item[1] IN
         [id |-> a.item_id,
          name |-> OrElse(a.name, cur.name),
          is_checked |-> OrElse(a.is_checked, cur.is_checked),
          quantity |-> OrElse(a.quantity, cur.quantity),
          unit |-> OrElse(a.unit, cur.unit),
          price |-> cur.price,
          description |-> OrElse(a.description, cur.description),
          category_id |-> cur.category_id]
    ELSE [id |-> a.item_id,
          name |-> OrElse(a.name, JStr("")),
          is_checked |-> OrElse(a.is_checked, JBool(FALSE)),
          quantity |-> a.quantity,
          unit |-> a.unit,
          price |-> JNull,
          description |-> a.description,
          category_id |-> JNull]

\* [ListonicList.from_api(lst) for lst in data]
ListsFromApi(data) == [i \in DOMAIN data |-> ListFromApi(data[i])]

\* list payloads the server returns from /api/lists
ListPayloads ==
  { [Id |-> JStr("1"), Name |-> JStr("Groceries"),
     Items |-> << [IdAsNumber |-> JInt(5), Name |-> JStr("Milk"),
                   Checked |-> JInt(1)] >>],
    [Id |-> JStr("1"), Name |-> JStr("Hardware"), Active |-> JInt(0)],
    [id |-> JStr("2"), name |-> JStr("Groceries")] }

\* longest list sequence a response carries
MaxLists == 2

ListBodies ==
  UNION { [1..n -> ListPayloads] : n \in 0..MaxLists }

\* ------------------------------------------------------------ errors
AuthError(m) == [cls |-> "ListonicAuthError", msg |-> m, status |-> 0]
ApiError(m, st) == [cls |-> "ListonicApiError", msg |-> m, status |-> st]
RateLimitError == [cls |-> "ListonicRateLimitError",
                   msg |-> "Request failed after retries", status |-> 0]
\* a connection failure raised as the wrong exception class
ConnectionErrorAsAuth == AuthError("Connection error")

\* raise ListonicApiError(f"Connection error: {err}") from err
ConnectionError == ApiError("Connection error", 0)
OkResult(st) == [cls |-> "ok", msg |-> "", status |-> st]

\* `except ListonicApiError` / `except ListonicAuthError`
IsAuthError(e) == e.cls = "ListonicAuthError"
IsApiError(e) == e.cls \in {"ListonicApiError", "ListonicRateLimitError"}

\* ------------------------------------------------------------ transport
\* A continuation takes and returns s = [g, tok, rtok, t]: the gate, the two
\* tokens and the running task's record, and runs the task to its next
\* suspension point.

\* a transport that rate-limits every request
SkipRateLimitNever(call) == FALSE

\* skip_rate_limit=True, as authenticate and _refresh_access_token pass it
SkipRateLimit(call) == call \in {"login", "refresh"}

WaitTime(elapsed) == MIN_REQUEST_INTERVAL - elapsed

\* session.request(...) is awaited; an operation whose requests are counted
\* has sent one more
Issued(s) ==
  [s EXCEPT !.t.pc = "flight", !.t.nHttp = @ + 1,
            !.t.sent = IF s.t.counted THEN @ + 1 ELSE @]

\* a gate whose lock is still held when the request is issued
AfterLockHolding(s, p) ==
  LET w == WaitTime(s.g.elapsed) IN
  IF w > 0
    THEN [s EXCEPT !.g.lock = p, !.t.wait = w, !.t.pc = "gate_sleep"]
    ELSE Issued([s EXCEPT !.g.lock = p, !.g.elapsed = 0])

\* _wait_for_rate_limit with the lock held, then the request
AfterLock(s, p) ==
  LET w == WaitTime(s.g.elapsed) IN
  IF w > 0
    THEN [s EXCEPT !.g.lock = p, !.t.wait = w, !.t.pc = "gate_sleep"]
    ELSE Issued([s EXCEPT !.g.lock = 0, !.g.elapsed = 0])

\* a lock that never makes a caller wait
AcquireLockUnguarded(s, p) == AfterLock(s, p)

\* async with self._rate_limit_lock
AcquireLock(s, p) ==
  IF s.g.lock = 0 /\ s.g.lockQ = <<>>
    THEN AfterLock(s, p)
    ELSE [s EXCEPT !.g.lockQ = Append(@, p), !.t.pc = "lock_wait"]

\* a semaphore that never makes a caller wait
SemAlwaysAcquirable(g) == TRUE

\* not self._request_semaphore.locked()
SemAcquirable(g) == g.sem > 0 /\ g.semQ = <<>>

\* async with self._request_semaphore

AcquireSem(s, p) ==
  IF SemAcquirable(s.g)
    THEN AcquireLock([s EXCEPT !.g.sem = @ - 1], p)
    ELSE [s EXCEPT !.g.semQ = Append(@, p), !.t.pc = "sem_wait"]

\* one pass of the retry loop of _request, up to its first suspension
Pass(s, p) ==
  IF SkipRateLimit(s.t.call) THEN Issued(s) ELSE AcquireSem(s, p)

\* _request(...) is called
Request(s, p, call) ==
  Pass([s EXCEPT !.t.call = call, !.t.btry = 0, !.t.nHttp = 0,
                 !.t.n5xx = 0, !.t.slept = 0, !.t.status = 0, !.t.ra = "",
                 !.t.backoff = 0, !.t.connFailed = FALSE], p)

\* min(_INITIAL_BACKOFF_SECONDS * 2**attempt, _MAX_BACKOFF_SECONDS)
Backoff(attempt) ==
  Min(INITIAL_BACKOFF_SECONDS * (2 ^ attempt), MAX_BACKOFF_SECONDS)

\* the delay slept after a 429 or 5xx answer to attempt number `attempt`
RetryDelay(status, ra, attempt) ==
  IF status = 429 /\ ra # "" /\ IsFloat(ra)
    THEN Max(Backoff(attempt), FloatOf(ra))
    ELSE Backoff(attempt)

ServerError(status) == 500 <= status /\ status < 600

Retryable(status) == status = 429 \/ ServerError(status)

\* one retry too many
RetriesLeftOffByOne(btry) == btry <= MAX_BACKOFF_RETRIES

\* for attempt in range(_MAX_BACKOFF_RETRIES): another pass follows
RetriesLeft(btry) == btry < MAX_BACKOFF_RETRIES

\* ------------------------------------------------------------ operations
Fail(s, err) == [s EXCEPT !.t.pc = "done", !.t.result = err]
Succeed(s, st) == [s EXCEPT !.t.pc = "done", !.t.result = OkResult(st)]

\* the task's record of what the authentication code did, in order, since
\* the call began or the last protected request was handed to the transport
Noted(s, event) == [s EXCEPT !.t.auth = Append(@, event)]

\* a direct call of authenticate() or _handle_auth_failure() returns b
ReturnedBool(s, b) ==
  [s EXCEPT !.t.pc = "done", !.t.result = OkResult(0), !.t.value = <<b>>]

\* the top of the 401-retry loop: headers=self._get_headers(), _request;
\* the locals of the authentication code are gone
Protected(s, p) ==
  Request([s EXCEPT !.t.auth = <<>>, !.t.login = NoLogin,
                    !.t.hdr = s.tok, !.t.nProt = @ + 1,
                    !.t.payload =
                      CASE s.t.op = "update_item" -> UpdatePayload(s.t.args)
                        [] s.t.op = "add_item" -> AddPayload(s.t.args)
                        [] OTHER -> <<>>],
          p, "data")

\* authenticate() is called from _ensure_authenticated or from recovery
Authenticate(s, p, ctx) ==
  Request([Noted(s, <<"authenticate">>) EXCEPT
             !.t.ctx = ctx,
             !.t.login = [NoLogin EXCEPT !.tok0 = s.tok, !.rtok0 = s.rtok]],
          p, "login")

\* _refresh_access_token returned False: fall back to authenticate()
RefreshFalse(s, p) == Authenticate(s, p, "recover")

\* _refresh_access_token ends, and how
RefreshEnded(s, how) == Noted(s, <<"refresh", how>>)

\* a refresh that is requested also without a refresh token
RefreshAccessTokenUnguarded(s, p) ==
  Request(Noted(s, <<"refresh_request">>), p, "refresh")

\* _refresh_access_token
RefreshAccessToken(s, p) ==
  IF s.rtok = NoToken
    THEN RefreshFalse(RefreshEnded(s, "no_refresh_token"), p)
    ELSE Request(Noted(s, <<"refresh_request">>), p, "refresh")

\* _handle_auth_failure
HandleAuthFailure(s, p) ==
  RefreshAccessToken([Noted(s, <<"clear">>) EXCEPT !.tok = NoToken,
                                                   !.t.nRecover = @ + 1], p)

\* a recovery after which the same attempt is made again
RecoveredSameAttempt(s, p) ==
  IF s.t.op = "_handle_auth_failure"
    THEN ReturnedBool([s EXCEPT !.t.recov = "true"], TRUE)
    ELSE Protected([s EXCEPT !.t.recov = "true"], p)

\* _handle_auth_failure returned True: to its direct caller, or `continue`
\* to the next attempt
Recovered(s, p) ==
  IF s.t.op = "_handle_auth_failure"
    THEN ReturnedBool([s EXCEPT !.t.recov = "true"], TRUE)
    ELSE Protected([s EXCEPT !.t.recov = "true", !.t.attempt = @ + 1], p)

\* a failed recovery that goes on to the next attempt all the same
NotRecoveredRetries(s, p) ==
  Protected([s EXCEPT !.t.recov = "false", !.t.attempt = @ + 1], p)

\* _handle_auth_failure returned False
NotRecovered(s, p) ==
  IF s.t.op = "_handle_auth_failure"
    THEN ReturnedBool([s EXCEPT !.t.recov = "false"], FALSE)
    ELSE Fail([s EXCEPT !.t.recov = "false"],
              AuthError("Authentication failed after retry"))

\* authenticate() returned True
Authenticated(s0, p) ==
  LET s == Noted(s0, <<"authenticated">>) IN
  CASE s.t.ctx = "recover" -> Recovered(s, p)
    [] s.t.ctx = "ensure" -> Protected(s, p)
    [] OTHER -> ReturnedBool(s, TRUE)

\* authenticate() raised err
AuthenticateRaised(s0, p, err) ==
  LET s == Noted(s0, <<"authenticate_raised", err.cls>>) IN
  IF s.t.ctx = "recover"
    THEN IF IsAuthError(err)
           THEN NotRecovered(s, p)
           ELSE Fail([s EXCEPT !.t.recov = "raised"], err)
    ELSE Fail(s, err)

\* what session.request or a body read raises on a connectivity failure
ClientError == [cls |-> "aiohttp.ClientError", msg |-> "", status |-> 0]

IsClientError(e) == e.cls = "aiohttp.ClientError"

\* an exception leaves _request (or the `async with response` block)
RequestRaised(s0, p, err) ==
  LET s == [s0 EXCEPT !.t.connFailed = IsClientError(err)] IN
  CASE s.t.call = "data" ->
         \* except aiohttp.ClientError; anything else propagates
         Fail(s, IF IsClientError(err) THEN ConnectionError ELSE err)
    [] s.t.call = "login" ->
         AuthenticateRaised(s, p, IF IsClientError(err)
                                    THEN ConnectionError ELSE err)
    [] s.t.call = "refresh" ->
         IF IsClientError(err)
           THEN RefreshFalse(RefreshEnded(s, "connection_error"), p)
           ELSE Fail([RefreshEnded(s, "raised") EXCEPT !.t.recov = "raised"],
                     err)

\* operations that all take 201 for success
SuccessStatusesCreated(op) == {200, 201}

\* if response.status != 200 / not in (200, 201)
SuccessStatuses(op) ==
  IF op \in {"add_item", "create_list"} THEN {200, 201} ELSE {200}

\* operations that decode a JSON body on success
ReadsBody(op) == op \notin {"update_item", "delete_item", "delete_list"}

\* one 401 retry too many
MayRetryAuthTwice(attempt) == attempt <= MAX_AUTH_RETRIES

\* if attempt < _MAX_AUTH_RETRIES
MayRetryAuth(attempt) == attempt < MAX_AUTH_RETRIES

\* what an operation that reads no body returns on success
Constructed(op, a) == IF op = "update_item" THEN <<UpdatedItem(a)>> ELSE <<>>

\* _request returned a response to its caller
Returned(s, p) ==
  LET st == s.t.status IN
  CASE s.t.call = "data" ->
         LET s1 == [s EXCEPT !.t.first = IF @ = 0 THEN st ELSE @] IN
         IF st = 401
           THEN IF MayRetryAuth(s.t.attempt)
                  THEN HandleAuthFailure(s1, p)
                  ELSE Fail(s1, AuthError("Authentication failed after retry"))
           ELSE IF st \notin SuccessStatuses(s.t.op)
                  THEN [s1 EXCEPT !.t.pc = "body"]
                  ELSE IF ReadsBody(s.t.op)
                         THEN [s1 EXCEPT !.t.pc = "body"]
                         ELSE Succeed([s1 EXCEPT !.t.value =
                                         Constructed(s.t.op, s.t.args)], st)
    [] s.t.call = "login" ->
         IF st = 401
           THEN AuthenticateRaised([s EXCEPT !.t.login.status = st], p,
                                   AuthError("Invalid credentials"))
           ELSE [s EXCEPT !.t.pc = "body"]
    [] s.t.call = "refresh" ->
         IF st # 200
           THEN RefreshFalse(RefreshEnded([s EXCEPT !.rtok = NoToken],
                                          "status"), p)
           ELSE [s EXCEPT !.t.pc = "body"]

\* what response.text() / response.json() may hold, by the response read
BodyTexts == {"Unauthorized", "Invalid grant", "Bad input"}

\* what response.text() may hold after a failed resource request
FailureTexts == {"", "Not found"}

\* a test for "Unauthorized" alone
MentionsAuthUnauthorizedOnly(text) == text = "Unauthorized"

\* "Unauthorized" in text or "Invalid" in text
MentionsAuth(text) == text \in {"Unauthorized", "Invalid grant"}

EmptyBody == [text |-> "", access |-> NoToken, refresh |-> NoToken,
              lists |-> <<>>]

Bodies(t) ==
  IF t.call = "login" /\ t.status = 400
    THEN {[EmptyBody EXCEPT !.text = x] : x \in BodyTexts}
  ELSE IF t.call \in {"login", "refresh"} /\ t.status = 200
    THEN {[EmptyBody EXCEPT !.access = a, !.refresh = r] :
            a \in {NoToken} \cup Tokens, r \in {NoToken} \cup Tokens}
  ELSE IF t.call = "data" /\ t.op = "get_lists" /\ t.status = 200
    THEN {[EmptyBody EXCEPT !.lists = l] : l \in ListBodies}
  ELSE IF t.call = "data" /\ t.status \notin SuccessStatuses(t.op)
    THEN {[EmptyBody EXCEPT !.text = x] : x \in FailureTexts}
  ELSE {EmptyBody}

\* the value a successful operation returns
Decoded(op, b) == IF op = "get_lists" THEN ListsFromApi(b.lists) ELSE <<>>

\* the body has been read
BodyRead(s0, p, b) ==
  LET st == s0.t.status
      s == IF s0.t.call = "login"
             THEN [s0 EXCEPT !.t.login.status = st, !.t.login.text = b.text,
                             !.t.login.access = b.access,
                             !.t.login.refresh = b.refresh]
             ELSE s0
  IN
  CASE s.t.call = "data" ->
         IF st \notin SuccessStatuses(s.t.op)
           THEN Fail(s, ApiError("Failed: " \o b.text, st))
           ELSE Succeed([s EXCEPT !.t.value = Decoded(s.t.op, b),
                                  !.t.raw = b.lists], st)
    [] s.t.call = "login" ->
         IF st = 400
           THEN IF MentionsAuth(b.text)
                  THEN AuthenticateRaised(s, p, AuthError("Invalid credentials"))
                  ELSE AuthenticateRaised(s, p, ApiError("Bad request", st))
           ELSE IF st # 200
                  THEN AuthenticateRaised(s, p, ApiError("Authentication failed", st))
                  ELSE LET s1 == [s EXCEPT !.tok = b.access,
                                           !.rtok = b.refresh] IN
                       IF b.access = NoToken
                         THEN AuthenticateRaised(s1, p, AuthError("No token in response"))
                         ELSE Authenticated(s1, p)
    [] s.t.call = "refresh" ->
         IF b.access = NoToken
           THEN RefreshFalse(RefreshEnded(s, "no_access_token"), p)
           ELSE Recovered(RefreshEnded([s EXCEPT !.tok = b.access,
                                                 !.rtok = IF b.refresh # NoToken
                                                            THEN b.refresh ELSE @],
                                       "ok"), p)

\* ------------------------------------------------------------ coordinator
\* {lst.id: lst for lst in lists}: a later list replaces an earlier one
Snapshot(lists) ==
  [id \in {lists[i].id : i \in DOMAIN lists} |->
     lists[CHOOSE i \in DOMAIN lists :
             /\ lists[i].id = id
             /\ \A j \in DOMAIN lists : lists[j].id = id => j <= i]]

\* a refresh that merges the new lists into the old snapshot
RefreshedMerging(c, result, lists) ==
  IF result.cls = "ok"
    THEN [c EXCEPT !.data =
                     [id \in DOMAIN c.data \cup DOMAIN Snapshot(lists) |->
                        IF id \in DOMAIN Snapshot(lists)
                          THEN Snapshot(lists)[id] ELSE c.data[id]],
                   !.ok = TRUE, !.raised = "none"]
    ELSE [c EXCEPT !.ok = FALSE,
                   !.raised = IF IsAuthError(result)
                                THEN "ConfigEntryAuthFailed" ELSE "UpdateFailed"]

\* a refresh that reports every failure as transient
RefreshedAllTransient(c, result, lists) ==
  IF result.cls = "ok"
    THEN [c EXCEPT !.data = Snapshot(lists), !.ok = TRUE, !.raised = "none"]
    ELSE [c EXCEPT !.ok = FALSE, !.raised = "UpdateFailed"]

\* a refresh that answers a failure with an empty snapshot
RefreshedClearing(c, result, lists) ==
  IF result.cls = "ok"
    THEN [c EXCEPT !.data = Snapshot(lists), !.ok = TRUE, !.raised = "none"]
    ELSE [c EXCEPT !.data = <<>>, !.ok = FALSE,
                   !.raised = IF IsAuthError(result)
                                THEN "ConfigEntryAuthFailed" ELSE "UpdateFailed"]

\* the coordinator after _async_update_data ended with `result`
Refreshed(c, result, lists) ==
  IF result.cls = "ok"
    THEN [c EXCEPT !.data = Snapshot(lists), !.ok = TRUE, !.raised = "none"]
  ELSE IF IsAuthError(result)
    THEN [c EXCEPT !.ok = FALSE, !.raised = "ConfigEntryAuthFailed"]
  ELSE IF IsApiError(result)
    THEN [c EXCEPT !.ok = FALSE, !.raised = "UpdateFailed"]
  ELSE [c EXCEPT !.ok = FALSE, !.raised = "unexpected"]

\* entry.options.get(CONF_SCAN_INTERVAL, DEFAULT_SCAN_INTERVAL), in seconds
ScanInterval(options) ==
  Get(options, CONF_SCAN_INTERVAL, DEFAULT_SCAN_INTERVAL)

\* the coordinator async_setup_entry creates for an entry with `options`
NewCoord(options) ==
  [data |-> <<>>, ok |-> TRUE, raised |-> "none",
   options |-> options, update_interval |-> ScanInterval(options),
   entries |-> <<>>,
   listening |-> FALSE, known_list_ids |-> {}, entities |-> <<>>]

InitCoord == NewCoord(<<>>)

\* a listener that answers an options update with a new coordinator
UpdateListenerRecreating(c, options) == NewCoord(options)

\* _async_update_listener, called when the entry's options have changed
UpdateListener(c, options) ==
  [c EXCEPT !.options = options, !.update_interval = ScanInterval(options)]

\* ------------------------------------------------------------ todo platform
\* the entities the platform has added, as the number of entities per list
\* id: one more for every id in `ids`
AddEntities(entities, ids) ==
  [id \in DOMAIN entities \cup ids |->
     (IF id \in DOMAIN entities THEN entities[id] ELSE 0)
       + (IF id \in ids THEN 1 ELSE 0)]

\* async_setup_entry of the todo platform: an entity per list of the
\* snapshot, and the listener registered
SetupPlatform(c) ==
  [c EXCEPT !.listening = TRUE,
            !.known_list_ids = DOMAIN c.data,
            !.entities = AddEntities(@, DOMAIN c.data)]

\* a listener that takes the snapshot's ids for the known ones
CheckNewListsForgetful(c) ==
  IF ~c.listening
    THEN c
    ELSE LET new_list_ids == DOMAIN c.data \ c.known_list_ids IN
         [c EXCEPT !.known_list_ids = DOMAIN c.data,
                   !.entities = AddEntities(@, new_list_ids)]

\* async_check_new_lists, the listener the coordinator calls after a
\* refresh, once the platform has registered it
CheckNewLists(c) ==
  IF ~c.listening
    THEN c
    ELSE LET new_list_ids == DOMAIN c.data \ c.known_list_ids IN
         IF new_list_ids = {}
           THEN c
           ELSE [c EXCEPT !.known_list_ids = @ \cup new_list_ids,
                          !.entities = AddEntities(@, new_list_ids)]

\* ------------------------------------------------------------ config flow
\* the outcome of a flow step: the form shown again with errors["base"]
\* (msg), an entry created (msg: its title), or the flow aborted (msg: why)
FlowForm(error) == [cls |-> "form", msg |-> error, status |-> 0]
FlowCreateEntry(title) == [cls |-> "create_entry", msg |-> title, status |-> 0]
FlowAbort(why) == [cls |-> "abort", msg |-> why, status |-> 0]

\* str.lower() on the addresses the model enters
Lower(email) == IF email = "A@x.io" THEN "a@x.io" ELSE email

\* the except clauses around `await client.authenticate()`
FlowError(err) ==
  IF IsAuthError(err) THEN "invalid_auth"
  ELSE IF IsApiError(err) THEN "cannot_connect"
  ELSE "unknown"

\* what a credential step returns once authenticate() has ended
FlowResult(t) ==
  IF t.result.cls = "ok"
    THEN IF t.margs.step = "user"
           THEN FlowCreateEntry(t.margs.input.email)
           ELSE FlowAbort("reauth_successful")
    ELSE FlowForm(FlowError(t.result))

\* a step that stores what was entered whatever authenticate() did
FlowEntriesAlways(entries, t) ==
  IF t.margs.step = "user"
    THEN [id \in DOMAIN entries \cup {t.margs.id} |->
            IF id = t.margs.id THEN t.margs.input ELSE entries[id]]
    ELSE [entries EXCEPT ![t.margs.id] =
            [email |-> @.email, password |-> t.margs.input.password]]

\* the config entries, by unique id, after the step: async_create_entry /
\* async_update_reload_and_abort in the else branch of the try
FlowEntries(entries, t) ==
  IF t.result.cls # "ok"
    THEN entries
  ELSE IF t.margs.step = "user"
    THEN [id \in DOMAIN entries \cup {t.margs.id} |->
            IF id = t.margs.id THEN t.margs.input ELSE entries[id]]
  ELSE [entries EXCEPT ![t.margs.id] =
          [email |-> @.email, password |-> t.margs.input.password]]

\* ------------------------------------------------------------ actions
State(p) == [g |-> gate, tok |-> token, rtok |-> refreshToken, t |-> task[p]]

\* a client that logs in at the start of every operation
EnsureAuthenticatedAlways(s, p) == Authenticate(s, p, "ensure")

\* _ensure_authenticated, then the first protected request
EnsureAuthenticated(s, p) ==
  IF s.tok = NoToken THEN Authenticate(s, p, "ensure") ELSE Protected(s, p)

\* ------------------------------------------------------------ mutations
\* the coordinator's mutation methods
SingleMutations ==
  {"async_add_item", "async_update_item", "async_check_item",
   "async_uncheck_item", "async_delete_item"}

Mutations == SingleMutations \cup {"async_delete_items"}

Call(method, op, a) == [method |-> method, op |-> op, args |-> a]

ItemArgs(id) == [NoArgs EXCEPT !.item_id = id]

\* check_item / uncheck_item: update_item(list_id, item_id, is_checked=...)
SetChecked(method, id, checked) ==
  Call(method, "update_item", [ItemArgs(id) EXCEPT !.is_checked = JBool(checked)])

\* a batch that deletes the ids last to first
BatchCallsReversed(ids) ==
  [i \in DOMAIN ids |->
     Call("delete_item", "delete_item", ItemArgs(ids[Len(ids) + 1 - i]))]

\* for item_id in item_ids: await self.client.delete_item(list_id, item_id)
BatchCalls(ids) ==
  [i \in DOMAIN ids |-> Call("delete_item", "delete_item", ItemArgs(ids[i]))]

\* the client calls a mutation method awaits, in order
MutationCalls(kind, ids, a) ==
  CASE kind = "async_add_item" ->
         <<Call("add_item", "add_item", NoArgs)>>
    [] kind = "async_update_item" ->
         <<Call("update_item", "update_item", a)>>
    [] kind = "async_check_item" ->
         <<SetChecked("check_item", a.item_id, TRUE)>>
    [] kind = "async_uncheck_item" ->
         <<SetChecked("uncheck_item", a.item_id, FALSE)>>
    [] kind = "async_delete_item" ->
         <<Call("delete_item", "delete_item", ItemArgs(a.item_id))>>
    [] kind = "async_delete_items" -> BatchCalls(ids)

\* a refresh requested twice
RequestRefreshTwice(s) ==
  [s EXCEPT !.t.pc = "done", !.t.outcome = OkResult(0),
            !.t.log = @ \o << <<"refresh">>, <<"refresh">> >>]

\* await self.async_request_refresh(), the method's last statement
RequestRefresh(s) ==
  [s EXCEPT !.t.pc = "done", !.t.outcome = OkResult(0),
            !.t.log = Append(@, <<"refresh">>)]

\* the mutation method goes on to its next statement
NextCall(s, p) ==
  IF s.t.idx < Len(s.t.calls)
    THEN LET c == s.t.calls[s.t.idx + 1] IN
         EnsureAuthenticated(
           [s EXCEPT !.t = [IdleTask EXCEPT
                              !.role = s.t.role, !.mut = s.t.mut,
                              !.margs = s.t.margs, !.calls = s.t.calls,
                              !.before = s.t.before,
                              !.idx = s.t.idx + 1,
                              !.log = Append(s.t.log,
                                             <<"call", c.method, c.args.item_id>>),
                              !.op = c.op, !.args = c.args]], p)
    ELSE RequestRefresh(s)

\* a mutation that requests its refresh also when the client call failed
AfterCallAlwaysRefreshing(s, p) ==
  IF s.t.result.cls = "ok"
    THEN NextCall([s EXCEPT !.t.log = Append(@, <<"returned">>)], p)
    ELSE [RequestRefresh(s) EXCEPT !.t.outcome = s.t.result]

\* a batch that goes on to the next item when a delete has failed
AfterCallSkippingFailed(s, p) ==
  IF s.t.result.cls = "ok"
    THEN NextCall([s EXCEPT !.t.log = Append(@, <<"returned">>)], p)
  ELSE IF s.t.idx < Len(s.t.calls)
    THEN NextCall(s, p)
    ELSE [s EXCEPT !.t.outcome = s.t.result]

\* the awaited client call has ended: its error propagates, or the method
\* goes on
AfterCall(s, p) ==
  IF s.t.result.cls = "ok"
    THEN NextCall([s EXCEPT !.t.log = Append(@, <<"returned">>)], p)
    ELSE [s EXCEPT !.t.outcome = s.t.result]

\* a client call made by a mutation method returns into that method
Resumed(s, p) ==
  IF /\ s.t.role \in {"mutation", "todo"}
     /\ s.t.pc = "done" /\ s.t.outcome = NoResult
    THEN AfterCall(s, p)
  ELSE IF s.t.role = "flow" /\ s.t.pc = "done" /\ s.t.outcome = NoResult
    THEN [s EXCEPT !.t.outcome = FlowResult(s.t)]
  ELSE s

\* a step of task p ends in s; a refresh that completes updates the
\* coordinator, a credential step that completes the config entries
Commit(p, s0) ==
  LET s == Resumed(s0, p) IN
  /\ gate' = s.g
  /\ token' = s.tok
  /\ refreshToken' = s.rtok
  /\ task' = [task EXCEPT ![p] = s.t]
  /\ coord' = IF s.t.pc = "done" /\ s.t.role = "refresh"
                THEN CheckNewLists(Refreshed(coord, s.t.result, s.t.value))
              ELSE IF s.t.pc = "done" /\ s.t.role = "flow"
                THEN [coord EXCEPT !.entries = FlowEntries(@, s.t)]
              ELSE coord
  /\ UNCHANGED faulty

\* tasks are interchangeable: they start in index order
MayStart(p) ==
  /\ task[p].pc = "idle"
  /\ \A q \in Procs : q < p => task[q].pc # "idle"

Start(p, role, op) ==
  /\ MayStart(p)
  /\ Commit(p, EnsureAuthenticated(
                 [State(p) EXCEPT !.t = [IdleTask EXCEPT !.role = role,
                                                         !.op = op,
                                                         !.before = coord.data,
                                                         !.ents0 = coord.entities]],
                 p))

\* a resource operation is called on the client
StartOp(p, op) == Start(p, "client", op)

\* the coordinator's _async_update_data is called
StartRefresh(p) == Start(p, "refresh", "get_lists")

\* a resource operation is called, and the HTTP requests it issues from its
\* call to its end are counted
StartCounted(p, op) ==
  /\ MayStart(p)
  /\ Commit(p, EnsureAuthenticated(
                 [State(p) EXCEPT !.t = [IdleTask EXCEPT !.role = "client",
                                                         !.op = op,
                                                         !.counted = TRUE,
                                                         !.before = coord.data]],
                 p))

\* a client method is called with arguments: update_item, or check_item /
\* uncheck_item, which call update_item
StartCall(p, c) ==
  /\ MayStart(p)
  /\ Commit(p, EnsureAuthenticated(
                 [State(p) EXCEPT !.t = [IdleTask EXCEPT
                                           !.role = "client", !.op = c.op,
                                           !.args = c.args,
                                           !.log = << <<"call", c.method,
                                                        c.args.item_id>> >>,
                                           !.before = coord.data]], p))

\* authenticate() is called directly, as async_setup_entry does
StartAuthenticate(p) ==
  /\ MayStart(p)
  /\ Commit(p, Authenticate(
                 [State(p) EXCEPT !.t = [IdleTask EXCEPT
                                           !.role = "client",
                                           !.op = "authenticate",
                                           !.before = coord.data]],
                 p, "direct"))

\* _handle_auth_failure() is called directly
StartRecover(p) ==
  /\ MayStart(p)
  /\ Commit(p, HandleAuthFailure(
                 [State(p) EXCEPT !.t = [IdleTask EXCEPT
                                           !.role = "client",
                                           !.op = "_handle_auth_failure",
                                           !.before = coord.data]],
                 p))

\* one of the coordinator's mutation methods is called
StartMutation(p, kind, ids, a) ==
  /\ MayStart(p)
  /\ Commit(p, NextCall(
                 [State(p) EXCEPT !.t = [IdleTask EXCEPT
                                           !.role = "mutation", !.mut = kind,
                                           !.margs = [ids |-> ids, a |-> a],
                                           !.calls = MutationCalls(kind, ids, a),
                                           !.before = coord.data]], p))

\* ------------------------------------------------------------ todo entity
\* the list id of the entity (ListonicTodoListEntity.list_id)
EntityListId == 1

\* the strings int() parses, of those the model uses
IsDigits(x) == x \in {"0", "1", "2", "3", "5", "7"}

\* int(uid) raised
ValueError == [cls |-> "ValueError", msg |-> "", status |-> 0]

\* a lookup that takes the list's first item whatever its id
FindItemFirst(data, list_id, item_id) ==
  IF list_id \notin DOMAIN data \/ data[list_id].items = <<>>
    THEN <<>>
    ELSE <<data[list_id].items[1]>>

\* _find_item_by_uid: <<>> is None
FindItem(data, list_id, item_id) ==
  IF list_id \notin DOMAIN data
    THEN <<>>
    ELSE LET items == data[list_id].items
             hits == {i \in DOMAIN items : items[i].id = item_id}
         IN IF hits = {}
              THEN <<>>
              ELSE <<items[CHOOSE i \in hits : \A j \in hits : i <= j]>>

\* b != v for a bool b, as Python compares
Differs(b, v) == ~EqInt(v, IF b THEN 1 ELSE 0)

NoMutation == [raised |-> FALSE, call |-> <<>>]

\* async_update_todo_item: the coordinator method it awaits, with its
\* arguments, or none; int(item.uid) may raise
TodoUpdate(data, list_id, item) ==
  IF ~Truthy(item.uid)
    THEN NoMutation
  ELSE IF ~IsDigits(item.uid[2])
    THEN [NoMutation EXCEPT !.raised = TRUE]
  ELSE
    LET item_id == ParseInt(item.uid[2])
        existing == FindItem(data, list_id, item_id)
        is_checked == item.status = "completed"
    IN IF existing = <<>>
         THEN NoMutation
       ELSE IF Differs(is_checked, existing[1].is_checked)
         THEN [NoMutation EXCEPT !.call =
                 <<IF is_checked THEN "async_check_item"
                                 ELSE "async_uncheck_item",
                   ItemArgs(item_id)>>]
       ELSE IF item.description # JNull
         THEN [NoMutation EXCEPT !.call =
                 <<"async_update_item",
                   [ItemArgs(item_id) EXCEPT !.description = item.description]>>]
       ELSE NoMutation

\* the entity's async_update_todo_item is called with a TodoItem
UpdateTodoItem(p, item) ==
  /\ MayStart(p)
  /\ LET d == TodoUpdate(coord.data, EntityListId, item)
         t0 == [IdleTask EXCEPT !.role = "todo",
                                !.margs = [ids |-> <<>>, a |-> NoArgs,
                                           item |-> item],
                                !.before = coord.data]
     IN IF d.call = <<>>
          THEN Commit(p, [State(p) EXCEPT !.t =
                            [t0 EXCEPT !.pc = "done",
                                       !.outcome = IF d.raised
                                                     THEN ValueError
                                                     ELSE OkResult(0)]])
          ELSE Commit(p, NextCall(
                 [State(p) EXCEPT !.t =
                    [t0 EXCEPT !.mut = d.call[1], !.margs.a = d.call[2],
                               !.calls = MutationCalls(d.call[1], <<>>,
                                                       d.call[2])]], p))

\* a flow step that ends without calling authenticate()
FlowEnds(p, t, outcome) ==
  Commit(p, [State(p) EXCEPT !.t = [t EXCEPT !.pc = "done",
                                             !.outcome = outcome]])

\* a flow step that creates a client for the credentials entered and
\* awaits its authenticate()
FlowAuthenticates(p, t) ==
  Commit(p, Authenticate([State(p) EXCEPT !.tok = NoToken, !.rtok = NoToken,
                                          !.t = t], p, "direct"))

\* async_step_user is called; input <<>> is user_input None
StepUser(p, input) ==
  /\ MayStart(p)
  /\ LET id == IF input = <<>> THEN "" ELSE Lower(input[1].email)
         t == [IdleTask EXCEPT
                 !.role = "flow", !.op = "authenticate",
                 !.margs = [step |-> "user", id |-> id,
                            input |-> IF input = <<>> THEN <<>> ELSE input[1]],
                 !.before = coord.data]
     IN IF input = <<>>
          THEN FlowEnds(p, t, FlowForm(""))
        ELSE IF id \in DOMAIN coord.entries
          THEN FlowEnds(p, t, FlowAbort("already_configured"))
        ELSE FlowAuthenticates(p, t)

\* async_step_reauth_confirm is called for the entry `id`
StepReauthConfirm(p, id, input) ==
  /\ MayStart(p)
  /\ id \in DOMAIN coord.entries
  /\ LET t == [IdleTask EXCEPT
                 !.role = "flow", !.op = "authenticate",
                 !.margs = [step |-> "reauth_confirm", id |-> id,
                            input |-> IF input = <<>> THEN <<>> ELSE input[1]],
                 !.before = coord.data]
     IN IF input = <<>>
          THEN FlowEnds(p, t, FlowForm(""))
          ELSE FlowAuthenticates(p, t)

\* the head of the semaphore queue is woken when a slot is free
SemResume(p) ==
  /\ task[p].pc = "sem_wait"
  /\ gate.semQ # <<>> /\ Head(gate.semQ) = p
  /\ gate.sem > 0
  /\ Commit(p, AcquireLock([State(p) EXCEPT !.g.sem = @ - 1,
                                            !.g.semQ = Tail(@)], p))

\* the head of the lock queue is woken when the lock is free
LockResume(p) ==
  /\ task[p].pc = "lock_wait"
  /\ gate.lockQ # <<>> /\ Head(gate.lockQ) = p
  /\ gate.lock = 0
  /\ Commit(p, AfterLock([State(p) EXCEPT !.g.lockQ = Tail(@)], p))

\* asyncio.sleep(wait_time) is over: stamp _last_request_time, leave the lock
GateWake(p) ==
  /\ task[p].pc = "gate_sleep"
  /\ task[p].wait = 0
  /\ Commit(p, Issued([State(p) EXCEPT !.g.lock = 0, !.g.elapsed = 0]))

\* 50 ms pass
Tick ==
  /\ gate.elapsed < MIN_REQUEST_INTERVAL \/ \E p \in Procs : task[p].wait > 0
  /\ gate' = [gate EXCEPT !.elapsed = Min(@ + 1, MIN_REQUEST_INTERVAL)]
  /\ task' = [p \in Procs |-> [task[p] EXCEPT !.wait = Max(@ - 1, 0)]]
  /\ UNCHANGED <<token, refreshToken, coord, faulty>>

\* a transport that keeps its semaphore slot when the request has ended
ReleaseSlotLeaking(s) == s

\* leaving `async with self._request_semaphore`
ReleaseSlot(s) ==
  IF SkipRateLimit(s.t.call) THEN s ELSE [s EXCEPT !.g.sem = @ + 1]

\* session.request returns a response
Received(s, p, st, ra) ==
  LET s1 == [ReleaseSlot(s) EXCEPT !.t.status = st, !.t.ra = ra] IN
  IF Retryable(st)
    THEN LET d == RetryDelay(st, ra, s.t.btry) IN
         [s1 EXCEPT !.t.pc = "backoff", !.t.backoff = d, !.t.slept = @ + d,
                    !.t.n5xx = IF ServerError(st) THEN @ + 1 ELSE @]
    ELSE Returned(s1, p)

Respond(p, st, ra) ==
  /\ task[p].pc = "flight"
  /\ Commit(p, Received(State(p), p, st, ra))

\* session.request raises aiohttp.ClientError
ConnFail(p) ==
  /\ task[p].pc = "flight"
  /\ Commit(p, RequestRaised(ReleaseSlot(State(p)), p, ClientError))

\* asyncio.sleep(backoff) is over: `continue`
BackoffWake(p) ==
  /\ task[p].pc = "backoff"
  /\ LET s == [State(p) EXCEPT !.t.btry = @ + 1] IN
     Commit(p, IF RetriesLeft(s.t.btry)
                 THEN Pass(s, p)
                 ELSE RequestRaised(s, p, RateLimitError))

\* the response body has been read
Body(p, b) ==
  /\ task[p].pc = "body"
  /\ Commit(p, BodyRead(State(p), p, b))

\* reading the body raises aiohttp.ClientError
BodyFail(p) ==
  /\ task[p].pc = "body"
  /\ Commit(p, RequestRaised(State(p), p, ClientError))

\* response.json() raised on a body that is not JSON
JSONDecodeError == [cls |-> "json.JSONDecodeError", msg |-> "", status |-> 0]

\* decoding the body of a 200 response raises json.JSONDecodeError
BodyMalformed(p) ==
  /\ task[p].pc = "body" /\ task[p].status = 200
  /\ Commit(p, RequestRaised(State(p), p, JSONDecodeError))

\* the entry's options are changed and the update listener runs
OptionsUpdated(options) ==
  /\ options # coord.options
  /\ coord' = UpdateListener(coord, options)
  /\ UNCHANGED <<token, refreshToken, gate, task, faulty>>

\* the todo platform is set up for the entry, its first refresh done
SetupEntry ==
  /\ ~coord.listening /\ coord.ok
  /\ \A p \in Procs : task[p].pc \in {"idle", "absent"}
  /\ coord' = SetupPlatform(coord)
  /\ UNCHANGED <<token, refreshToken, gate, task, faulty>>

\* the caller has the result; the task is free for the next operation
Finish(p) ==
  /\ task[p].pc = "done"
  /\ task' = [task EXCEPT ![p] = IdleTask]
  /\ UNCHANGED <<token, refreshToken, gate, coord, faulty>>

\* the suspension points of a client call: the awaits of _request,
\* _wait_for_rate_limit and of reading a body
Suspended(t) ==
  t.pc \in {"sem_wait", "lock_wait", "gate_sleep", "flight", "backoff", "body"}

\* asyncio.CancelledError, which no `except` of the client catches
CancelledError == [cls |-> "CancelledError", msg |-> "", status |-> 0]

\* q without the waiter p
RECURSIVE Without(_, _)
Without(q, p) ==
  IF q = <<>> THEN <<>>
  ELSE IF Head(q) = p THEN Without(Tail(q), p)
  ELSE <<Head(q)>> \o Without(Tail(q), p)

\* a cancellation that also drops the tokens the client holds
CancelledLoggingOut(s, p) ==
  Fail([s EXCEPT !.tok = NoToken, !.rtok = NoToken, !.t.wait = 0],
       CancelledError)

\* CancelledError is raised at the await the task is suspended in and leaves
\* the call: the `async with` blocks it passes give back the slot and the
\* lock the task holds, a waiter leaves its queue, nothing else is written
Cancelled(s, p) ==
  LET slot == /\ ~SkipRateLimit(s.t.call)
              /\ s.t.pc \in {"lock_wait", "gate_sleep", "flight"}
  IN Fail([s EXCEPT !.g.sem = IF slot THEN @ + 1 ELSE @,
                    !.g.semQ = Without(@, p),
                    !.g.lockQ = Without(@, p),
                    !.g.lock = IF @ = p THEN 0 ELSE @,
                    !.t.wait = 0],
          CancelledError)

\* the host abandons the pending call of task p
Cancel(p) ==
  /\ Suspended(task[p])
  /\ Commit(p, Cancelled(State(p), p))

\* ------------------------------------------------------------ Spec
\* One client, one call at a time (a resource operation, authenticate() or
\* _handle_auth_failure()), any server behaviour.
Init ==
  /\ token = NoToken
  /\ refreshToken = NoToken
  /\ gate \in {InitGate(e) : e \in 0..MIN_REQUEST_INTERVAL}
  /\ task = [p \in Procs |-> IF p = 1 THEN IdleTask ELSE AbsentTask]
  /\ coord = InitCoord
  /\ faulty = TRUE

\* the steps every task takes inside the client
ClientStep(p) ==
  \/ GateWake(p)
  \/ \E st \in Statuses :
       \E ra \in (IF Retryable(st) THEN RetryAfterHeaders ELSE {""}) :
         Respond(p, st, ra)
  \/ ConnFail(p)
  \/ BackoffWake(p)
  \/ \E b \in Bodies(task[p]) : Body(p, b)
  \/ BodyFail(p)
  \/ Finish(p)

Next ==
  \/ \E p \in Procs, op \in Operations : StartOp(p, op)
  \/ \E p \in Procs : StartAuthenticate(p)
  \/ \E p \in Procs : StartRecover(p)
  \/ \E p \in Procs : ClientStep(p)
  \/ Tick

Spec == Init /\ [][Next]_vars

\* ------------------------------------------------------------ SpecCoord
\* The coordinator refreshing its snapshot from one client.
NextCoord ==
  \/ \E p \in Procs : StartRefresh(p)
  \/ \E p \in Procs : ClientStep(p)
  \/ Tick

SpecCoord == Init /\ [][NextCoord]_vars

\* ------------------------------------------------------------ SpecGate
\* One authenticated client and concurrent callers of delete_item: either
\* NumTasks callers whose requests are all answered 200, or NumRetryCallers
\* callers and a server that also answers 429 and drops connections.
InitGateSpec ==
  /\ token = 1
  /\ refreshToken = 1
  /\ gate \in {InitGate(e) : e \in 0..MIN_REQUEST_INTERVAL}
  /\ faulty \in BOOLEAN
  /\ task = [p \in Procs |->
               IF faulty /\ p > NumRetryCallers THEN AbsentTask ELSE IdleTask]
  /\ coord = InitCoord

GateStatuses == IF faulty THEN {200, 429} ELSE {200}

NextGate ==
  \/ \E p \in Procs : StartOp(p, "delete_item")
  \/ \E p \in Procs : SemResume(p)
  \/ \E p \in Procs : LockResume(p)
  \/ \E p \in Procs : GateWake(p)
  \/ \E p \in Procs, st \in GateStatuses :
       Respond(p, st, "")
  \/ \E p \in Procs : faulty /\ ConnFail(p)
  \/ \E p \in Procs : BackoffWake(p)
  \/ Tick

SpecGate == InitGateSpec /\ [][NextGate]_vars

\* ------------------------------------------------------------ SpecGateFair
\* SpecGate under a fair event loop: a task that can be resumed is resumed,
\* time passes, and every request in flight is answered or fails.
GateProgress ==
  \/ \E p \in Procs : SemResume(p)
  \/ \E p \in Procs : LockResume(p)
  \/ \E p \in Procs : GateWake(p)
  \/ \E p \in Procs, st \in GateStatuses : Respond(p, st, "")
  \/ \E p \in Procs : faulty /\ ConnFail(p)
  \/ \E p \in Procs : BackoffWake(p)
  \/ Tick

GateFairness == WF_vars(GateProgress)

InitGateFair ==
  /\ InitGateSpec
  /\ gate = InitGate(MIN_REQUEST_INTERVAL)

SpecGateFair == InitGateFair /\ [][NextGate]_vars /\ GateFairness

\* ------------------------------------------------------------ SpecAuthGate
\* One authenticated client, concurrent callers of delete_item whose requests
\* stay unanswered, and one caller of authenticate() or
\* _handle_auth_failure() whose requests are answered 200, 429 or 503.
AuthCaller == NumTasks

\* the login and token-refresh calls of the transport
AuthCalls == {"login", "refresh"}

InitAuthGate ==
  /\ token = 1
  /\ refreshToken = 1
  /\ gate = InitGate(MIN_REQUEST_INTERVAL)
  /\ faulty = FALSE
  /\ task = [p \in Procs |-> IdleTask]
  /\ coord = InitCoord

AuthGateStatuses == {200, 429, 503}

NextAuthGate ==
  \/ \E p \in Procs \ {AuthCaller} : StartOp(p, "delete_item")
  \/ StartAuthenticate(AuthCaller)
  \/ StartRecover(AuthCaller)
  \/ \E p \in Procs : LockResume(p)
  \/ \E p \in Procs : GateWake(p)
  \/ \E p \in Procs, st \in AuthGateStatuses :
       task[p].call \in AuthCalls /\ Respond(p, st, "")
  \/ \E p \in Procs : BackoffWake(p)
  \/ \E p \in Procs : \E b \in Bodies(task[p]) : Body(p, b)
  \/ Tick

SpecAuthGate == InitAuthGate /\ [][NextAuthGate]_vars

\* ------------------------------------------------------------ SpecOptions
\* The coordinator, set up with a poll interval of 60 s, polling through an
\* authenticated client whose server answers 200 or drops the connection,
\* while the entry's options change.
EntryOptions ==
  {<<>>} \cup {[k \in {CONF_SCAN_INTERVAL} |-> n] :
                n \in {DEFAULT_SCAN_INTERVAL, 60, 120}}

InitOptions ==
  /\ token \in Tokens
  /\ refreshToken \in Tokens
  /\ gate = InitGate(MIN_REQUEST_INTERVAL)
  /\ task = [p \in Procs |-> IF p = 1 THEN IdleTask ELSE AbsentTask]
  /\ coord = NewCoord([k \in {CONF_SCAN_INTERVAL} |-> 60])
  /\ faulty = FALSE

NextOptions ==
  \/ \E o \in EntryOptions : OptionsUpdated(o)
  \/ \E p \in Procs : StartRefresh(p)
  \/ \E p \in Procs : GateWake(p)
  \/ \E p \in Procs : Respond(p, 200, "")
  \/ \E p \in Procs : ConnFail(p)
  \/ \E p \in Procs : \E b \in Bodies(task[p]) : Body(p, b)
  \/ \E p \in Procs : Finish(p)
  \/ Tick

SpecOptions == InitOptions /\ [][NextOptions]_vars

\* ------------------------------------------------------------ SpecMut
\* The coordinator's mutation methods on one client, any server behaviour
\* but for the Retry-After header, which no mutation method looks at.
ItemIds == {5, 7}

\* longest batch async_delete_items is called with
MaxBatch == 2

Batches == UNION {[1..n -> ItemIds] : n \in 0..MaxBatch}

MilkItem ==
  [id |-> 5, name |-> JStr("Milk"), is_checked |-> JBool(FALSE),
   quantity |-> JStr("2"), unit |-> JStr("L"), price |-> JInt(3),
   description |-> JNull, category_id |-> JInt(7)]

\* arguments the mutation methods are called with
MutationArgs ==
  {[ItemArgs(5) EXCEPT !.is_checked = JBool(TRUE),
                       !.current_item = <<MilkItem>>],
   [ItemArgs(7) EXCEPT !.name = JStr("Bread")]}

\* the steps inside the client, the server sending no Retry-After header
PlainStep(p) ==
  \/ GateWake(p)
  \/ \E st \in Statuses : Respond(p, st, "")
  \/ ConnFail(p)
  \/ BackoffWake(p)
  \/ \E b \in Bodies(task[p]) : Body(p, b)
  \/ BodyFail(p)
  \/ Finish(p)

NextMut ==
  \/ \E p \in Procs, kind \in SingleMutations, a \in MutationArgs :
       StartMutation(p, kind, <<>>, a)
  \/ \E p \in Procs, ids \in Batches :
       StartMutation(p, "async_delete_items", ids, NoArgs)
  \/ \E p \in Procs : PlainStep(p)
  \/ Tick

SpecMut == Init /\ [][NextMut]_vars

\* ------------------------------------------------------------ SpecItem
\* update_item, check_item, uncheck_item and add_item on an authenticated
\* client whose server answers 200 or 404.
UpdateArgs ==
  {[item_id |-> id, is_checked |-> c, name |-> n, quantity |-> q,
    unit |-> u, description |-> d, current_item |-> cur] :
     id \in ItemIds,
     c \in {JNull, JBool(TRUE), JBool(FALSE)},
     n \in {JNull, JStr(""), JStr("Bread")},
     q \in {JNull, JStr("3")},
     u \in {JNull, JStr("kg")},
     d \in {JNull, JStr("ripe")},
     cur \in {<<>>, <<MilkItem>>}}

\* arguments add_item is called with
AddArgs ==
  {[NoArgs EXCEPT !.name = n, !.quantity = q, !.unit = u] :
     n \in {JStr("Milk"), JStr("")},
     q \in {JNull, JStr(""), JStr("2"), JInt(0)},
     u \in {JNull, JStr(""), JStr("kg")}}

InitItem ==
  /\ token = 1
  /\ refreshToken = 1
  /\ gate \in {InitGate(e) : e \in 0..MIN_REQUEST_INTERVAL}
  /\ task = [p \in Procs |-> IF p = 1 THEN IdleTask ELSE AbsentTask]
  /\ coord = InitCoord
  /\ faulty = FALSE

NextItem ==
  \/ \E p \in Procs, a \in UpdateArgs :
       StartCall(p, Call("update_item", "update_item", a))
  \/ \E p \in Procs, id \in ItemIds :
       StartCall(p, SetChecked("check_item", id, TRUE))
  \/ \E p \in Procs, id \in ItemIds :
       StartCall(p, SetChecked("uncheck_item", id, FALSE))
  \/ \E p \in Procs, a \in AddArgs :
       StartCall(p, Call("add_item", "add_item", a))
  \/ \E p \in Procs : GateWake(p)
  \/ \E p \in Procs, st \in {200, 404} : Respond(p, st, "")
  \/ \E p \in Procs : \E b \in Bodies(task[p]) : Body(p, b)
  \/ \E p \in Procs : Finish(p)
  \/ Tick

SpecItem == InitItem /\ [][NextItem]_vars

\* ------------------------------------------------------------ SpecCodec
\* get_lists on an authenticated client whose server answers 200 with list
\* payloads in PascalCase, camelCase or both, holding values of every JSON
\* type the decoder distinguishes.
Restrict(f, keys) == [k \in keys |-> f[k]]

\* the key pairs from_api looks up, PascalCase first
ItemKeyPairs ==
  {<<"Id", "id">>, <<"Name", "name">>, <<"Checked", "isChecked">>,
   <<"Amount", "quantity">>, <<"Unit", "unit">>, <<"Price", "price">>,
   <<"Description", "description">>, <<"CategoryId", "categoryId">>}

ListKeyPairs ==
  {<<"Id", "id">>, <<"Name", "name">>, <<"Items", "items">>,
   <<"Active", "active">>, <<"Deleted", "deleted">>}

\* the value each key holds when present: the two casings of a field differ
ItemValues(num) ==
  [IdAsNumber |-> JInt(num),
   Id |-> JStr("7"), id |-> JStr("5"),
   Name |-> JStr("Milk"), name |-> JStr("Bread"),
   Checked |-> JInt(1), isChecked |-> JBool(FALSE),
   Amount |-> JStr("2"), quantity |-> JStr("3"),
   Unit |-> JStr("L"), unit |-> JStr("kg"),
   Price |-> JInt(3), price |-> JInt(1),
   Description |-> JStr("Whole"), description |-> JStr("ripe"),
   CategoryId |-> JInt(7), categoryId |-> JInt(2)]

\* item payloads: every choice of keys among the id, name, checked and
\* amount keys, the remaining keys present per casing as a group
ItemPayloads ==
  {Restrict(ItemValues(num), k1 \cup k2 \cup k3) :
     num \in {0, 5},
     k1 \in SUBSET {"IdAsNumber", "Id", "id", "Name", "name", "Checked",
                    "isChecked", "Amount", "quantity"},
     k2 \in {{}, {"Unit", "Price", "Description", "CategoryId"}},
     k3 \in {{}, {"unit", "price", "description", "categoryId"}}}

\* the values a checked flag arrives with
CheckedValues ==
  {JInt(0), JInt(1), JInt(2), JBool(TRUE), JBool(FALSE), JStr("yes"),
   JStr(""), JNull}

\* most items a list payload of CheckedLists carries
MaxItems == 2

\* list payloads whose items differ in their checked flag
CheckedLists ==
  {[Id |-> JStr("1"), Items |-> items] :
     items \in UNION {[1..n -> {[Id |-> JStr("5"), Checked |-> c] :
                                 c \in CheckedValues}] : n \in 0..MaxItems}}

\* the values the Active and Deleted flags arrive with
FlagValues ==
  {JInt(0), JInt(1), JInt(2), JBool(TRUE), JBool(FALSE), JStr("0"),
   JStr("1"), JNull}

\* list payloads of one casing, each flag absent or of any value
FlaggedLists ==
  {Restrict([Id |-> JStr("1"), Active |-> a, Deleted |-> d], keys) :
     a \in FlagValues, d \in FlagValues,
     keys \in {{"Id"} \cup k : k \in SUBSET {"Active", "Deleted"}}}
  \cup
  {Restrict([id |-> JStr("1"), active |-> a, deleted |-> d], keys) :
     a \in FlagValues, d \in FlagValues,
     keys \in {{"id"} \cup k : k \in SUBSET {"active", "deleted"}}}

ListValues ==
  [Id |-> JStr("1"), id |-> JStr("2"),
   Name |-> JStr("Groceries"), name |-> JStr("Hardware"),
   Items |-> << [Id |-> JStr("7"), Checked |-> JInt(1)] >>,
   items |-> << [id |-> JStr("5")], [id |-> JStr("3")] >>,
   Active |-> JInt(0), active |-> JInt(1),
   Deleted |-> JInt(0), deleted |-> JInt(1)]

\* list payloads of every choice of keys
MixedLists == {Restrict(ListValues, k) : k \in SUBSET DOMAIN ListValues}

\* the camelCase payload holding, for every field, the value from_api is to
\* find in `raw`: the PascalCase key's if present, else the camelCase key's
Recased(raw, pairs) ==
  LET has(pr) == pr[1] \in DOMAIN raw \/ pr[2] \in DOMAIN raw IN
  [k \in {pr[2] : pr \in {q \in pairs : has(q)}} |->
     LET pr == CHOOSE q \in pairs : q[2] = k IN
     IF pr[1] \in DOMAIN raw THEN raw[pr[1]] ELSE raw[k]]

\* ... for an item, whose id is the numeric id when that is set
CamelItem(raw) ==
  LET r == Recased(raw, ItemKeyPairs) IN
  IF "IdAsNumber" \in DOMAIN raw /\ Truthy(raw.IdAsNumber)
    THEN [k \in DOMAIN r \cup {"id"} |->
            IF k = "id" THEN raw.IdAsNumber ELSE r[k]]
    ELSE r

\* ... for a list, items included
CamelList(raw) ==
  LET r == Recased(raw, ListKeyPairs) IN
  [k \in DOMAIN r |->
     IF k = "items"
       THEN [i \in DOMAIN r[k] |-> CamelItem(r[k][i])]
       ELSE r[k]]

\* the list sequences the server answers with
CodecBodies ==
  {<<l>> : l \in CheckedLists \cup FlaggedLists}
  \cup {<<l, CamelList(l)>> : l \in MixedLists}
  \cup {<<l, CamelList(l)>> :
          l \in {[Id |-> JStr("1"), Items |-> <<it>>] : it \in ItemPayloads}}

NextCodec ==
  \/ \E p \in Procs : StartOp(p, "get_lists")
  \/ \E p \in Procs : GateWake(p)
  \/ \E p \in Procs : Respond(p, 200, "")
  \/ \E p \in Procs, l \in CodecBodies :
       Body(p, [EmptyBody EXCEPT !.lists = l])
  \/ \E p \in Procs : Finish(p)
  \/ Tick

SpecCodec == InitItem /\ [][NextCodec]_vars

\* ------------------------------------------------------------ SpecCancel
\* The coordinator refreshing through one client, any server behaviour but
\* for the Retry-After header, the host abandoning a pending refresh at any
\* suspension point.
NextCancel ==
  \/ \E p \in Procs : StartRefresh(p)
  \/ \E p \in Procs : PlainStep(p)
  \/ \E p \in Procs : Cancel(p)
  \/ Tick

SpecCancel == Init /\ [][NextCancel]_vars

\* ------------------------------------------------------------ SpecTerm
\* One client, one resource operation at a time, a server that answers
\* 200, 400, 401 or 429 or drops the connection; every request is answered
\* or fails, every body read and every sleep ends.

\* the task Init has created
Callers == {p \in Procs : p = 1}

TermOperations == {"get_lists", "delete_item"}

TermStatuses == {200, 400, 401, 429}

\* what the event loop and the server are assumed to get done: a response or
\* a connection failure for every request, the end of every sleep
Progress(p) ==
  \/ GateWake(p)
  \/ \E st \in TermStatuses : Respond(p, st, "")
  \/ ConnFail(p)
  \/ BackoffWake(p)
  \/ \E b \in Bodies(task[p]) : Body(p, b)
  \/ BodyFail(p)

NextTerm ==
  \/ \E p \in Procs, op \in TermOperations : StartCounted(p, op)
  \/ \E p \in Procs : Progress(p)
  \/ \E p \in Procs : Finish(p)
  \/ Tick

SpecTerm ==
  /\ Init /\ [][NextTerm]_vars
  /\ WF_vars(Tick)
  /\ \A p \in Callers : WF_vars(Progress(p))

\* ------------------------------------------------------------ SpecTodo
\* The todo entity of list 1 updating items through the coordinator and an
\* authenticated client whose server answers 200 or 404; the snapshot is
\* what a refresh decoded.
TodoItems ==
  {[uid |-> u, status |-> st, description |-> d] :
     u \in {JNull, JStr(""), JStr("5"), JStr("7"), JStr("x")},
     st \in {"needs_action", "completed", "none"},
     d \in {JNull, JStr(""), JStr("ripe")}}

\* the list payloads the snapshot was decoded from
TodoListBodies ==
  {<<>>, << [Id |-> JStr("2"), Items |-> << [Id |-> JStr("5")] >>] >>,
   << [Id |-> JStr("1"),
       Items |-> << [Id |-> JStr("5")],
                    [Id |-> JStr("7"), Checked |-> JInt(1)],
                    [Id |-> JStr("7"), Checked |-> JInt(0)] >>] >>}
  \cup {<< [Id |-> JStr("1"),
            Items |-> << [Id |-> JStr("5"), Checked |-> c] >>] >> :
          c \in {JInt(1), JBool(FALSE), JStr("yes"), JNull}}

InitTodo ==
  /\ token = 1
  /\ refreshToken = 1
  /\ gate = InitGate(MIN_REQUEST_INTERVAL)
  /\ task = [p \in Procs |-> IF p = 1 THEN IdleTask ELSE AbsentTask]
  /\ coord \in {[InitCoord EXCEPT !.data = Snapshot(ListsFromApi(l))] :
                  l \in TodoListBodies}
  /\ faulty = FALSE

NextTodo ==
  \/ \E p \in Procs, item \in TodoItems : UpdateTodoItem(p, item)
  \/ \E p \in Procs : GateWake(p)
  \/ \E p \in Procs, st \in {200, 404} : Respond(p, st, "")
  \/ \E p \in Procs : \E b \in Bodies(task[p]) : Body(p, b)
  \/ \E p \in Procs : Finish(p)
  \/ Tick

SpecTodo == InitTodo /\ [][NextTodo]_vars

\* ------------------------------------------------------------ SpecFlow
\* The config flow's credential steps, one at a time, each with a client of
\* its own, against a server that answers the login with 200, 400, 401 or
\* 429, with a body that may not decode, or drops the connection.
Emails == {"a@x.io", "A@x.io", "b@x.io"}
Passwords == {"old", "new"}

UserInputs ==
  {<<>>} \cup {<<[email |-> e, password |-> pw]>> : e \in Emails, pw \in Passwords}

ReauthInputs == {<<>>} \cup {<<[password |-> pw]>> : pw \in Passwords}

FlowStatuses == {200, 400, 401, 429}

NextFlow ==
  \/ \E p \in Procs, input \in UserInputs : StepUser(p, input)
  \/ \E p \in Procs, input \in ReauthInputs :
       \E id \in DOMAIN coord.entries : StepReauthConfirm(p, id, input)
  \/ \E p \in Procs, st \in FlowStatuses : Respond(p, st, "")
  \/ \E p \in Procs : ConnFail(p)
  \/ \E p \in Procs : BackoffWake(p)
  \/ \E p \in Procs : \E b \in Bodies(task[p]) : Body(p, b)
  \/ \E p \in Procs : BodyFail(p)
  \/ \E p \in Procs : BodyMalformed(p)
  \/ \E p \in Procs : Finish(p)

SpecFlow == InitOptions /\ [][NextFlow]_vars

\* ------------------------------------------------------------ SpecRace
\* Two concurrent callers of delete_item on one authenticated client whose
\* server answers a protected request with 200 or 401 and every refresh and
\* login with 200.
RaceCallers == {p \in Procs : p <= 2}

InitRace ==
  /\ token = 1
  /\ refreshToken = 1
  /\ gate = InitGate(MIN_REQUEST_INTERVAL)
  /\ task = [p \in Procs |-> IF p \in RaceCallers THEN IdleTask ELSE AbsentTask]
  /\ coord = InitCoord
  /\ faulty = FALSE

NextRace ==
  \/ \E p \in Procs : StartOp(p, "delete_item")
  \/ \E p \in Procs : LockResume(p)
  \/ \E p \in Procs : GateWake(p)
  \/ \E p \in Procs :
       \E st \in (IF task[p].call = "data" THEN {200, 401} ELSE {200}) :
         Respond(p, st, "")
  \/ \E p \in Procs : \E b \in Bodies(task[p]) : Body(p, b)
  \/ \E p \in Procs : Finish(p)
  \/ Tick

SpecRace == InitRace /\ [][NextRace]_vars

\* ------------------------------------------------------------ SpecBatch
\* The coordinator deleting batches of items and refreshing, one call at a
\* time, on an authenticated client whose snapshot shows list 1 with the
\* items 5 and 7; the server answers 200 or 404 or drops the connection.
BatchListBody ==
  << [Id |-> JStr("1"), Name |-> JStr("Groceries"),
      Items |-> << [IdAsNumber |-> JInt(5), Name |-> JStr("Milk")],
                   [IdAsNumber |-> JInt(7), Name |-> JStr("Bread")] >>] >>

InitBatch ==
  /\ token = 1
  /\ refreshToken = 1
  /\ gate = InitGate(MIN_REQUEST_INTERVAL)
  /\ task = [p \in Procs |-> IF p = 1 THEN IdleTask ELSE AbsentTask]
  /\ coord = [InitCoord EXCEPT !.data = Snapshot(ListsFromApi(BatchListBody))]
  /\ faulty = FALSE

NextBatch ==
  \/ \E p \in Procs, ids \in Batches :
       StartMutation(p, "async_delete_items", ids, NoArgs)
  \/ \E p \in Procs : StartRefresh(p)
  \/ \E p \in Procs : GateWake(p)
  \/ \E p \in Procs, st \in {200, 404} : Respond(p, st, "")
  \/ \E p \in Procs : ConnFail(p)
  \/ \E p \in Procs : \E b \in Bodies(task[p]) : Body(p, b)
  \/ \E p \in Procs : Finish(p)
  \/ Tick

SpecBatch == InitBatch /\ [][NextBatch]_vars

\* ------------------------------------------------------------ SpecPlatform
\* The todo platform set up on a coordinator that refreshes, one refresh at
\* a time, from an authenticated client whose server answers 200 with any
\* lists, or 404.
NextPlatform ==
  \/ SetupEntry
  \/ \E p \in Procs : StartRefresh(p)
  \/ \E p \in Procs : GateWake(p)
  \/ \E p \in Procs, st \in {200, 404} : Respond(p, st, "")
  \/ \E p \in Procs : \E b \in Bodies(task[p]) : Body(p, b)
  \/ \E p \in Procs : Finish(p)
  \/ Tick

SpecPlatform == InitOptions /\ [][NextPlatform]_vars

\* ------------------------------------------------------------ claims
Running == {p \in Procs : task[p].pc \notin {"absent", "idle"}}
Done == {p \in Procs : task[p].pc = "done"}

C2_AttemptsCapped ==
  \A p \in Running :
    /\ task[p].nProt <= MAX_AUTH_RETRIES + 1
    /\ task[p].nRecover <= 1
    /\ task[p].nProt = 2 /\ task[p].call = "data" /\ task[p].status = 401 =>
         /\ task[p].pc = "done"
         /\ task[p].result.cls = "ListonicAuthError"
         /\ task[p].nRecover = 1

C2_Witness ==
  \E p \in Done :
    /\ task[p].nProt = 2 /\ task[p].call = "data" /\ task[p].status = 401
    /\ task[p].result.cls = "ListonicAuthError"

InTransport(t) ==
  t.pc \in {"sem_wait", "lock_wait", "gate_sleep", "flight", "backoff"}

\* C3: one transport call issues at most 3 HTTP requests, one more after each
\* 429/5xx answer; an answer that is neither is handed to the caller, ending
\* the call; three 429/5xx answers end it with a RateLimit error.
C3_TransportRetries ==
  \A p \in Running :
    /\ task[p].nHttp <= MAX_BACKOFF_RETRIES
    /\ task[p].pc = "flight" => task[p].nHttp = task[p].btry + 1
    /\ InTransport(task[p]) /\ task[p].status # 0 =>
         task[p].status = 429 \/ task[p].status >= 500
    /\ task[p].result.cls = "ListonicRateLimitError" =>
         /\ task[p].pc = "done"
         /\ task[p].nHttp = 3
         /\ task[p].status = 429 \/ task[p].status >= 500
    /\ task[p].pc = "backoff" =>
         /\ task[p].nHttp = task[p].btry + 1
         /\ task[p].status = 429 \/ task[p].status >= 500

C3_Witness ==
  \E p \in Done :
    task[p].result.cls = "ListonicRateLimitError" /\ task[p].nHttp = 3

\* C4: a transport call that fails after three 5xx answers has slept
\* 1 s + 2 s = 3 s of backoff in total.
C4_BackoffTotal ==
  \A p \in Done :
    task[p].result.cls = "ListonicRateLimitError" /\ task[p].n5xx = 3 =>
      task[p].slept = 3

\* C5: the wait after a 429 or 5xx answer carrying a numeric Retry-After of
\* r seconds is max(computed backoff, r).
C5_RetryAfter ==
  \A p \in Running :
    task[p].pc = "backoff" /\ IsFloat(task[p].ra) =>
      task[p].backoff = Max(Min(2 ^ task[p].btry, 30), FloatOf(task[p].ra))

\* C6: at most 10 non-exempt requests are in flight at any moment.
InFlight == {p \in Procs : task[p].pc = "flight" /\ task[p].call = "data"}

C6_ConcurrencyCap == Cardinality(InFlight) <= 10

C6_Witness ==
  /\ Cardinality(InFlight) = 10
  /\ \E p \in Procs : task[p].pc = "sem_wait"

\* C7: whenever a non-exempt request passes the rate-limit gate, at least
\* 100 ms (2 ticks) have passed since the previous one passed it.
Passes(p) ==
  /\ task'[p].pc = "flight" /\ task'[p].call = "data"
  /\ task[p].pc # "flight"

C7_Spacing ==
  [][\A p \in Procs : Passes(p) => gate.elapsed >= 2]_vars

C7_Witness ==
  \E p, q \in Procs :
    /\ task[p].pc = "flight" /\ task[p].btry > 0
    /\ task[q].pc = "gate_sleep" /\ task[q].wait = 1

C9_SnapshotReplaced ==
  \A p \in Done :
    task[p].role = "refresh" /\ task[p].result.cls = "ok" =>
      LET lists == task[p].value IN
      /\ DOMAIN coord.data = {lists[i].id : i \in DOMAIN lists}
      /\ \A i \in DOMAIN lists :
           (\A j \in DOMAIN lists : j > i => lists[j].id # lists[i].id) =>
             coord.data[lists[i].id] = lists[i]

C9_Witness ==
  \E p \in Done :
    /\ task[p].role = "refresh" /\ task[p].result.cls = "ok"
    /\ \E id \in DOMAIN task[p].before : id \notin DOMAIN coord.data
    /\ DOMAIN coord.data # {}

\* C10: a refresh whose get_lists failed with an Auth error raises
\* ConfigEntryAuthFailed, and one whose get_lists failed with an API error
\* (RateLimit and connection errors included) raises UpdateFailed.
C10_RefreshErrors ==
  \A p \in Done :
    task[p].role = "refresh" =>
      /\ task[p].result.cls = "ListonicAuthError" <=>
           coord.raised = "ConfigEntryAuthFailed"
      /\ task[p].result.cls \in {"ListonicApiError", "ListonicRateLimitError"} <=>
           coord.raised = "UpdateFailed"

C10_Witness ==
  \E p \in Done :
    /\ task[p].role = "refresh"
    /\ task[p].result.cls = "ListonicRateLimitError"
    /\ coord.raised = "UpdateFailed"

Mutating == {p \in Procs : task[p].role = "mutation"}

\* C11: a single-item mutation that succeeded made exactly one client call,
\* the one its name says on the item it was given, and requested exactly
\* one refresh, after that call had returned; no refresh is requested
\* while the client call is still running.
C11_OneCallThenRefresh ==
  \A p \in Mutating :
    task[p].mut \in SingleMutations =>
      LET method ==
            CASE task[p].mut = "async_add_item" -> "add_item"
              [] task[p].mut = "async_update_item" -> "update_item"
              [] task[p].mut = "async_check_item" -> "check_item"
              [] task[p].mut = "async_uncheck_item" -> "uncheck_item"
              [] task[p].mut = "async_delete_item" -> "delete_item"
          id == IF task[p].mut = "async_add_item"
                  THEN 0 ELSE task[p].margs.a.item_id
      IN /\ task[p].pc = "done" /\ task[p].outcome.cls = "ok" =>
              task[p].log = << <<"call", method, id>>, <<"returned">>,
                               <<"refresh">> >>
         /\ task[p].pc # "done" => task[p].log = << <<"call", method, id>> >>

C11_Witness ==
  \E p \in Mutating :
    /\ task[p].mut = "async_check_item" /\ task[p].pc = "done"
    /\ task[p].outcome.cls = "ok"
    /\ task[p].nProt = 2
    /\ Len(task[p].log) = 3

\* C12: async_delete_items given n ids, every delete succeeding, has made n
\* delete_item calls, one per id in the given order, each returned before
\* the next, and then requested exactly one refresh (for n = 0: no delete,
\* one refresh request); no refresh is requested before the last delete
\* returned.
C12_BatchThenOneRefresh ==
  \A p \in Mutating :
    task[p].mut = "async_delete_items" =>
      LET ids == task[p].margs.ids
          n == Len(ids)
          log == task[p].log
      IN /\ task[p].pc = "done" /\ task[p].outcome.cls = "ok" =>
              /\ Len(log) = 2 * n + 1
              /\ \A i \in 1..n :
                   /\ log[2 * i - 1] = <<"call", "delete_item", ids[i]>>
                   /\ log[2 * i] = <<"returned">>
              /\ log[2 * n + 1] = <<"refresh">>
         /\ task[p].pc # "done" =>
              \A i \in DOMAIN log : log[i] # <<"refresh">>

C12_Witness ==
  \E p \in Mutating :
    /\ task[p].mut = "async_delete_items"
    /\ task[p].pc = "done" /\ task[p].outcome.cls = "ok"
    /\ Len(task[p].margs.ids) = 2
    /\ task[p].margs.ids[1] # task[p].margs.ids[2]
    /\ Len(task[p].log) = 5

\* C13: when the client call under a mutation method fails, with an Auth,
\* API, RateLimit or connection error, the method ends with that very
\* error, has requested no refresh and makes no further client call.
C13_FailedMutation ==
  \A p \in Mutating :
    /\ task[p].pc = "done" /\ task[p].result.cls \notin {"ok", "none"} =>
         /\ task[p].outcome = task[p].result
         /\ \A i \in DOMAIN task[p].log : task[p].log[i] # <<"refresh">>
         /\ task[p].log[Len(task[p].log)][1] = "call"
         /\ Len(task[p].log) = 2 * task[p].idx - 1
    /\ task[p].pc = "done" /\ task[p].outcome.cls # "ok" =>
         task[p].outcome.cls \in {"ListonicAuthError", "ListonicApiError",
                                  "ListonicRateLimitError"}

C13_Witness ==
  \E p \in Mutating :
    /\ task[p].pc = "done" /\ task[p].mut = "async_delete_items"
    /\ task[p].idx = 2 /\ task[p].connFailed
    /\ task[p].outcome = [cls |-> "ListonicApiError",
                          msg |-> "Connection error", status |-> 0]

Refreshing == {p \in Procs : task[p].role = "refresh"}

\* C14: a refresh that failed with an API error (a RateLimit or connection
\* error included) leaves the snapshot as it was when the refresh started,
\* and a refresh still running has written nothing to it.
C14_FailedRefreshKeepsSnapshot ==
  \A p \in Refreshing :
    /\ task[p].pc = "done"
         /\ task[p].result.cls \in {"ListonicApiError", "ListonicRateLimitError"} =>
           coord.data = task[p].before
    /\ task[p].pc # "done" => coord.data = task[p].before

C14_Witness ==
  \E p \in Refreshing :
    /\ task[p].pc = "done" /\ task[p].connFailed
    /\ task[p].result.cls = "ListonicApiError"
    /\ task[p].before # <<>>
    /\ coord.data = task[p].before

\* successful update_item calls
Updated ==
  {p \in Procs : /\ task[p].pc = "done" /\ task[p].op = "update_item"
                 /\ task[p].result.cls = "ok"}

UpdatableFields == {"name", "is_checked", "quantity", "unit", "description"}

\* C16: a successful update_item given a prior item returns the requested
\* item id, the new value for every field named in the update, and the
\* prior item's value for every other field, price and category_id
\* included.
C16_UpdateOverPrior ==
  \A p \in Updated :
    task[p].args.current_item # <<>> =>
      LET a == task[p].args
          cur == a.current_item[1]
          v == task[p].value[1]
      IN /\ v.id = a.item_id
         /\ \A f \in UpdatableFields :
              v[f] = IF a[f] = <<"null">> THEN cur[f] ELSE a[f]
         /\ v.price = cur.price
         /\ v.category_id = cur.category_id

C16_Witness ==
  \E p \in Updated :
    /\ task[p].args.current_item # <<>>
    /\ task[p].args.item_id # task[p].args.current_item[1].id
    /\ task[p].args.is_checked = <<"bool", FALSE>>
    /\ task[p].args.name = <<"str", "">>
    /\ task[p].args.quantity = <<"null">>
    /\ task[p].value[1].quantity = <<"str", "2">>

Fetched ==
  {p \in Procs : /\ task[p].pc = "done" /\ task[p].op = "get_lists"
                 /\ task[p].result.cls = "ok"}

PascalListKeys == {"Id", "Name", "Items", "Active", "Deleted"}
CamelListKeys == {"id", "name", "items", "active", "deleted"}

\* the flag of a payload written in one casing; `absent` when it has none
Flag(raw, pascal, camel, absent) ==
  IF pascal \in DOMAIN raw THEN raw[pascal]
  ELSE IF camel \in DOMAIN raw THEN raw[camel]
  ELSE absent

\* C18: for every list payload written in one casing, is_archived is true
\* exactly when the active flag equals 0 or the deleted flag equals 1 (as
\* Python compares: False equals 0 and True equals 1, a string or null
\* equals neither), an absent active flag counting as 1 and an absent
\* deleted flag as 0.
C18_Archived ==
  \A p \in Fetched :
    \A i \in DOMAIN task[p].raw :
      LET raw == task[p].raw[i]
          active == Flag(raw, "Active", "active", <<"int", 1>>)
          deleted == Flag(raw, "Deleted", "deleted", <<"int", 0>>)
      IN DOMAIN raw \subseteq PascalListKeys \/ DOMAIN raw \subseteq CamelListKeys =>
           (task[p].value[i].is_archived <=>
              \/ active \in {<<"int", 0>>, <<"bool", FALSE>>}
              \/ deleted \in {<<"int", 1>>, <<"bool", TRUE>>})

C18_Witness ==
  \E p \in Fetched :
    /\ Len(task[p].raw) = 1
    /\ DOMAIN task[p].raw[1] = {"id", "active", "deleted"}
    /\ task[p].raw[1].active = <<"int", 2>>
    /\ task[p].raw[1].deleted = <<"int", 1>>
    /\ task[p].value[1].is_archived

\* C19: for every decoded list, whatever the checked values of its items,
\* unchecked_count + checked_count is the number of items, and both are 0
\* for a list without items.
C19_CountsAddUp ==
  \A p \in Fetched :
    \A i \in DOMAIN task[p].value :
      LET lst == task[p].value[i] IN
      /\ UncheckedCount(lst) + CheckedCount(lst) = Len(lst.items)
      /\ lst.items = <<>> => UncheckedCount(lst) = 0 /\ CheckedCount(lst) = 0

C19_Witness ==
  \E p \in Fetched :
    /\ Len(task[p].value) = 1
    /\ Len(task[p].value[1].items) = 2
    /\ task[p].value[1].items[1].is_checked = <<"str", "yes">>
    /\ task[p].value[1].items[2].is_checked = <<"null">>
    /\ CheckedCount(task[p].value[1]) = 1
    /\ UncheckedCount(task[p].value[1]) = 1

\* the fields from_api copies from the payload unconverted: PascalCase key,
\* camelCase key, normalized field, default
CopiedItemFields ==
  {<<"Name", "name", "name", <<"str", "">> >>,
   <<"Amount", "quantity", "quantity", <<"null">> >>,
   <<"Unit", "unit", "unit", <<"null">> >>,
   <<"Price", "price", "price", <<"null">> >>,
   <<"Description", "description", "description", <<"null">> >>,
   <<"CategoryId", "categoryId", "category_id", <<"null">> >>}

\* C20: a payload and the camelCase payload holding the same field values
\* decode to the same list, items included; every copied field holds the
\* PascalCase key's value if that key is present, else the camelCase
\* key's, else the default, and a payload with no id, checked or items key
\* decodes to id 0, unchecked, no items.
C20_CasingIndependent ==
  \A p \in Fetched :
    LET raw == task[p].raw
        value == task[p].value
    IN /\ \A i, j \in DOMAIN raw :
            raw[j] = CamelList(raw[i]) => value[j] = value[i]
       /\ \A i \in DOMAIN raw :
            /\ value[i].name = Flag(raw[i], "Name", "name", <<"str", "">>)
            /\ {"Id", "id"} \cap DOMAIN raw[i] = {} => value[i].id = 0
            /\ {"Items", "items"} \cap DOMAIN raw[i] = {} =>
                 value[i].items = <<>>
            /\ "Items" \in DOMAIN raw[i] =>
                 \A k \in DOMAIN raw[i].Items :
                   LET it == raw[i].Items[k]
                       item == value[i].items[k]
                   IN /\ \A f \in CopiedItemFields :
                           item[f[3]] = Flag(it, f[1], f[2], f[4])
                      /\ {"IdAsNumber", "Id", "id"} \cap DOMAIN it = {} =>
                           item.id = 0
                      /\ {"Checked", "isChecked"} \cap DOMAIN it = {} =>
                           item.is_checked = <<"bool", FALSE>>

C20_Witness ==
  \E p \in Fetched :
    /\ Len(task[p].raw) = 2
    /\ "Items" \in DOMAIN task[p].raw[1]
    /\ {"Id", "id", "Name", "isChecked", "quantity", "Unit", "unit"}
         \subseteq DOMAIN task[p].raw[1].Items[1]
    /\ "Checked" \notin DOMAIN task[p].raw[1].Items[1]
    /\ task[p].raw[2] = CamelList(task[p].raw[1])
    /\ task[p].value[1] = task[p].value[2]
    /\ task[p].value[1].items[1].id = 7

\* C21: decoding an item's checked flag passes a boolean through unchanged,
\* maps integer 1 to true and integer 0 to false, and leaves an integer
\* other than 0 and 1 uncoerced: it does not come out as a boolean.
C21_CheckedFlag ==
  \A p \in Fetched :
    \A i \in DOMAIN task[p].raw :
      "Items" \in DOMAIN task[p].raw[i] =>
        \A k \in DOMAIN task[p].raw[i].Items :
          LET it == task[p].raw[i].Items[k]
              v == task[p].value[i].items[k].is_checked
          IN "Checked" \in DOMAIN it =>
               LET c == it.Checked IN
               /\ c[1] = "bool" => v = c
               /\ c = <<"int", 1>> => v = <<"bool", TRUE>>
               /\ c = <<"int", 0>> => v = <<"bool", FALSE>>
               /\ c[1] = "int" /\ c[2] \notin {0, 1} => v[1] # "bool"

\* the keyword arguments of a call that were provided (are not None)
Provided(a, fields) == {f \in fields : a[f] # <<"null">>}

\* C22: the body of a write holds exactly the PascalCase fields the caller
\* provided: for update_item each of Checked, Name, Amount, Unit and
\* Description iff its argument was provided; for add_item Name always and
\* Amount / Unit iff quantity / unit were provided, an empty string or a
\* zero counting as provided.
C22_PayloadFields ==
  \A p \in Running :
    task[p].nProt > 0 =>
      LET a == task[p].args
          key == [is_checked |-> "Checked", name |-> "Name",
                  quantity |-> "Amount", unit |-> "Unit",
                  description |-> "Description"]
      IN /\ task[p].op = "update_item" =>
              DOMAIN task[p].payload =
                {key[f] : f \in Provided(a, UpdatableFields)}
         /\ task[p].op = "add_item" =>
              DOMAIN task[p].payload =
                {"Name"} \cup {key[f] : f \in Provided(a, {"quantity", "unit"})}

\* calls of authenticate() that have ended, by returning or by raising
AuthEnded ==
  {p \in Running :
     /\ task[p].auth # <<>>
     /\ task[p].auth[Len(task[p].auth)][1]
          \in {"authenticated", "authenticate_raised"}}

\* how the authenticate() call of p ended
AuthEnd(p) == task[p].auth[Len(task[p].auth)]

\* C23: authenticate() answers a 401 login response with an Auth error, a
\* 400 whose body text mentions an authorization problem with an Auth error,
\* and every other non-200 status that reaches it (a 400 with another text
\* included) with the generic API error; it returns success only after a
\* 200 response, and after any other response both tokens are as they were
\* when it was called.
C23_LoginClassified ==
  \A p \in AuthEnded :
    LET l == task[p].login
        authError == <<"authenticate_raised", "ListonicAuthError">>
        apiError == <<"authenticate_raised", "ListonicApiError">>
    IN /\ l.status = 401 => AuthEnd(p) = authError
       /\ l.status = 400 /\ l.text \in {"Unauthorized", "Invalid grant"} =>
            AuthEnd(p) = authError
       /\ l.status = 400 /\ l.text \notin {"Unauthorized", "Invalid grant"} =>
            AuthEnd(p) = apiError
       /\ l.status \notin {0, 200, 400, 401} => AuthEnd(p) = apiError
       /\ AuthEnd(p)[1] = "authenticated" =>
            /\ l.status = 200
            /\ token = l.access /\ token # NoToken
            /\ refreshToken = l.refresh
       /\ l.status # 200 =>
            token = l.tok0 /\ refreshToken = l.rtok0

C23_Witness ==
  \E p \in AuthEnded :
    /\ task[p].op = "authenticate"
    /\ task[p].login.status = 400 /\ task[p].login.text = "Invalid grant"
    /\ task[p].result.cls = "ListonicAuthError"

\* the events of p's authentication record
AuthEvents(p) == {task[p].auth[i] : i \in DOMAIN task[p].auth}

\* a token refresh exchange of p is under way
Exchanging(p) ==
  /\ task[p].call = "refresh"
  /\ task[p].pc \in {"flight", "backoff", "body"}

\* the refresh of p was handed a non-200 response: the refresh token is None
\* unless the login that followed has supplied one
InvalidatedAfterStatus(p) ==
  <<"refresh", "status">> \in AuthEvents(p) =>
    \/ refreshToken = NoToken
    \/ task[p].login.status = 200 /\ refreshToken = task[p].login.refresh

\* a recovery that found no refresh token issued no refresh request and
\* called authenticate() next
SkipsRefresh(p) ==
  /\ Exchanging(p) => refreshToken # NoToken
  /\ <<"refresh", "no_refresh_token">> \in AuthEvents(p) =>
       /\ <<"refresh_request">> \notin AuthEvents(p)
       /\ Len(task[p].auth) >= 3
       /\ task[p].auth[1] = <<"clear">>
       /\ task[p].auth[2] = <<"refresh", "no_refresh_token">>
       /\ task[p].auth[3] = <<"authenticate">>
       /\ task[p].login.rtok0 = NoToken

\* only a 200 login response puts a refresh token where there was none
SuppliedByLogin ==
  refreshToken = NoToken /\ refreshToken' # NoToken =>
    \E p \in Procs :
      /\ task[p].call = "login" /\ task[p].pc = "body"
      /\ task[p].status = 200
      /\ task'[p] # task[p]

Recovering == {p \in Running : <<"clear">> \in AuthEvents(p)}

\* C25: _handle_auth_failure first clears the access token, then attempts
\* the refresh, and calls authenticate() exactly when the refresh did not
\* succeed, whichever way it failed: no refresh token held, a non-200
\* response, a 200 response without access token, a connection failure, or
\* the backoff retries exhausted.
C25_RecoverOrder ==
  \A p \in Recovering :
    LET log == task[p].auth IN
    /\ log[1] = <<"clear">>
    /\ Len(log) >= 2
    /\ log[2] \in {<<"refresh_request">>, <<"refresh", "no_refresh_token">>}
    /\ Exchanging(p) => token = NoToken
    /\ \A i \in DOMAIN log :
         log[i][1] = "refresh" =>
           IF log[i][2] = "ok"
             THEN \A j \in DOMAIN log : log[j] # <<"authenticate">>
             ELSE Len(log) > i /\ log[i + 1] = <<"authenticate">>

\* C26: every _handle_auth_failure call that has ended has returned a
\* boolean, true exactly when the client then holds an access token,
\* whatever the refresh and login exchanges answered (generic API errors
\* and connection failures during login included).
C26_RecoverReturnsBool ==
  \A p \in Running :
    task[p].recov # "none" =>
      /\ task[p].recov \in {"true", "false"}
      /\ task[p].recov = "true" <=> token # NoToken

\* a resource operation of p starts in this step
Starts(p) ==
  /\ task[p].pc = "idle" /\ task'[p].pc # "idle"
  /\ task'[p].op \in Operations

\* a login request of p is issued in this step
LoginIssued(p) ==
  /\ task'[p].call = "login" /\ task'[p].pc = "flight"
  /\ task[p].call # "login" \/ task[p].pc # "flight"

\* C27: a resource operation issues a login request before its protected
\* request if and only if the client holds no access token when it starts;
\* an operation that starts with a token goes to its protected request at
\* once, and issues a login request only after a 401 answer.
C27_LoginOnlyWithoutToken ==
  [][\A p \in Procs :
       /\ Starts(p) =>
            /\ LoginIssued(p) <=> token = NoToken
            /\ token = NoToken => task'[p].nProt = 0
            /\ token # NoToken =>
                 task'[p].call = "data" /\ task'[p].nProt = 1
       /\ LoginIssued(p) /\ task'[p].op \in Operations =>
            /\ token' = NoToken
            /\ task'[p].nProt = 0 \/ task'[p].first = 401
            /\ task'[p].nProt = 0 => Starts(p) \/ task[p].call = "login"]_vars

C27_Witness ==
  \E p \in Done :
    /\ task[p].op = "get_lists" /\ task[p].result.cls = "ok"
    /\ task[p].ctx = "none" /\ task[p].nProt = 1 /\ task[p].nRecover = 0
    /\ task[p].hdr # NoToken /\ token = task[p].hdr

\* a login or token-refresh request of p is issued in this step
AuthIssued(p) ==
  /\ task'[p].call \in AuthCalls /\ task'[p].pc = "flight"
  /\ task'[p].nHttp # task[p].nHttp \/ task'[p].call # task[p].call

\* C28: a login or token-refresh request never waits at the rate-limit
\* gate: it is issued in the step that calls for it, takes no concurrency
\* slot and neither waits for nor stamps the 100 ms spacing, also while 10
\* data requests are in flight; a 429 or 5xx answer to it is followed by
\* another request after the backoff, up to 3 requests, and then by the
\* RateLimit error.
C28_AuthBypassesGate ==
  [][\A p \in Procs :
       /\ task'[p].call \in AuthCalls =>
            /\ task'[p].pc \notin {"sem_wait", "lock_wait", "gate_sleep"}
            /\ task'[p].nHttp <= MAX_BACKOFF_RETRIES
            /\ task'[p].pc = "backoff" =>
                 task'[p].status = 429 \/ task'[p].status >= 500
       /\ AuthIssued(p) =>
            /\ gate' = gate
            /\ task[p].pc \in {"idle", "backoff", "flight", "body"}
       /\ /\ task[p].call \in AuthCalls /\ task[p].pc = "backoff"
          /\ task'[p] # task[p]
          => IF task[p].btry + 1 < MAX_BACKOFF_RETRIES
               THEN /\ task'[p].pc = "flight" /\ task'[p].call = task[p].call
                    /\ task'[p].nHttp = task[p].nHttp + 1
               ELSE /\ task'[p].pc = "done"
                    /\ task'[p].result.cls = "ListonicRateLimitError"
                    /\ task'[p].nHttp = MAX_BACKOFF_RETRIES]_vars

C28_Witness ==
  /\ Cardinality(InFlight) = 10
  /\ \E p \in Procs :
       /\ task[p].call = "refresh" /\ task[p].pc = "flight"
       /\ task[p].btry = 2 /\ task[p].status = 503

\* C29: whenever authenticate() or _handle_auth_failure() ends in an
\* authentication failure the client holds no access token, whatever it
\* held before; and a successful authenticate() has set the access token
\* and the refresh token from the same login response.
C29_AuthFailureClearsToken ==
  \A p \in Running :
    /\ p \in AuthEnded =>
         /\ AuthEnd(p) = <<"authenticate_raised", "ListonicAuthError">> =>
              token = NoToken
         /\ AuthEnd(p) = <<"authenticated">> =>
              /\ token = task[p].login.access /\ token # NoToken
              /\ refreshToken = task[p].login.refresh
    /\ task[p].recov = "false" => token = NoToken

\* C30: a change of the entry's options sets the update interval of the
\* existing coordinator to the option's value, or to the default when the
\* option is absent, and leaves everything else of the coordinator (the
\* snapshot and the last outcome), both tokens and every running call as
\* they were; at all times the coordinator's interval is the one its
\* entry's options give.
C30_IntervalUpdated ==
  [][/\ coord'.update_interval =
          IF "scan_interval" \in DOMAIN coord'.options
            THEN coord'.options["scan_interval"] ELSE 30
     /\ coord'.options # coord.options =>
          /\ coord'.data = coord.data
          /\ coord'.ok = coord.ok /\ coord'.raised = coord.raised
          /\ token' = token /\ refreshToken' = refreshToken
          /\ task' = task /\ gate' = gate]_vars

C30_Witness ==
  /\ coord.options = <<>> /\ coord.update_interval = 30
  /\ coord.data # <<>>
  /\ \E p \in Refreshing : task[p].pc = "flight"

\* p reads the decoded body of a 200 response to one of `calls` in this step
Decodes(p, calls) ==
  /\ task[p].pc = "body" /\ task[p].status = 200 /\ task[p].call \in calls
  /\ task'[p] # task[p]
  /\ task'[p].result.cls # "CancelledError"

\* the pending call of p is abandoned in this step
Abandoned(p) ==
  /\ task[p].pc \notin {"idle", "done"}
  /\ task'[p].pc = "done" /\ task'[p].result.cls = "CancelledError"

\* C31 (as stated): every write to the access token, the refresh token or
\* the snapshot happens in the step that has read and decoded the body of a
\* response; abandoning a call writes none of them.
C31_AsStated ==
  [][/\ token' # token \/ refreshToken' # refreshToken =>
          \E p \in Procs : Decodes(p, AuthCalls)
     /\ coord'.data # coord.data => \E p \in Procs : Decodes(p, {"data"})
     /\ \A p \in Procs :
          Abandoned(p) =>
            /\ token' = token /\ refreshToken' = refreshToken
            /\ coord'.data = coord.data]_vars

\* C31 (amended): a token value and the snapshot are written only in the
\* step that has decoded the body of a 200 response, both tokens of a login
\* or refresh response in that one step; the tokens are cleared on a status
\* alone: the access token when a protected request is answered 401 and
\* recovery starts, the refresh token when the refresh request is answered
\* with a non-200 status; abandoning a call at any suspension point writes
\* neither token nor the snapshot and gives back the slot and the lock held.
C31_WritesAfterDecode ==
  [][/\ token' # token /\ token' # NoToken =>
          \E p \in Procs : Decodes(p, AuthCalls)
     /\ refreshToken' # refreshToken /\ refreshToken' # NoToken =>
          \E p \in Procs : Decodes(p, AuthCalls)
     /\ coord'.data # coord.data =>
          \E p \in Procs : Decodes(p, {"data"}) /\ task[p].role = "refresh"
     /\ token' # token /\ token' = NoToken =>
          \E p \in Procs :
            /\ task[p].pc = "flight" /\ task[p].call = "data"
            /\ task'[p].first = 401
            /\ task'[p].nRecover = task[p].nRecover + 1
     /\ refreshToken' # refreshToken /\ refreshToken' = NoToken =>
          \E p \in Procs :
            \/ /\ task[p].pc = "flight" /\ task[p].call = "refresh"
               /\ <<"refresh", "status">> \in
                    {task'[p].auth[i] : i \in DOMAIN task'[p].auth}
            \/ Decodes(p, {"login"})
     /\ \A p \in Procs :
          Abandoned(p) =>
            /\ token' = token /\ refreshToken' = refreshToken
            /\ coord' = [coord EXCEPT !.ok = coord'.ok,
                                      !.raised = coord'.raised]
            /\ gate'.lock # p
            /\ gate'.sem = gate.sem +
                 (IF task[p].call = "data" /\ task[p].pc \in {"gate_sleep", "flight"}
                    THEN 1 ELSE 0)
            /\ gate'.elapsed = gate.elapsed]_vars

C31_Witness ==
  \E p \in Done :
    /\ task[p].role = "refresh" /\ task[p].result.cls = "CancelledError"
    /\ task[p].call = "login" /\ task[p].ctx = "recover"
    /\ <<"refresh", "connection_error">> \in AuthEvents(p)
    /\ token = NoToken /\ refreshToken # NoToken
    /\ coord.data # <<>> /\ coord.data = task[p].before

\* tasks holding a slot of the concurrency semaphore
SlotHolders ==
  {p \in Procs : /\ task[p].call = "data"
                 /\ task[p].pc \in {"lock_wait", "gate_sleep", "flight"}}

\* C32: a task whose HTTP request is in flight neither holds the rate-limit
\* mutex nor waits for it; the mutex is held only by a task inside
\* _wait_for_rate_limit (sleeping out the interval), and the only thing held
\* across a request is the issuer's slot of the concurrency semaphore, which
\* a task sleeping in backoff has given back.
C32_NoLockInFlight ==
  /\ \A p \in Procs :
       task[p].pc = "flight" =>
         /\ gate.lock # p
         /\ \A i \in DOMAIN gate.lockQ : gate.lockQ[i] # p
  /\ gate.lock # 0 => task[gate.lock].pc = "gate_sleep"
  /\ gate.sem = MAX_CONCURRENT_REQUESTS - Cardinality(SlotHolders)

C32_Witness ==
  \E p, q \in Procs :
    /\ task[p].pc = "flight" /\ task[p].call = "data"
    /\ gate.lock = q /\ task[q].pc = "gate_sleep"
    /\ gate.lockQ # <<>>

\* the statuses the code of `op` takes for success
OkStatuses(op) == IF op \in {"add_item", "create_list"} THEN {200, 201} ELSE {200}

\* p's protected request is answered in this step with a status that is
\* neither retried by the transport, nor a success, nor 401
Rejected(p) ==
  /\ task[p].pc = "flight" /\ task[p].call = "data"
  /\ task'[p].pc # "flight" /\ task'[p].result.cls # "CancelledError"
  /\ ~task'[p].connFailed
  /\ task'[p].status \notin OkStatuses(task[p].op) \cup {401, 429}
  /\ task'[p].status < 500

\* p reads the body text of such a response in this step
ReadsFailure(p) ==
  /\ task[p].pc = "body" /\ task[p].call = "data"
  /\ task[p].status \notin OkStatuses(task[p].op)
  /\ task'[p] # task[p]
  /\ ~task'[p].connFailed /\ task'[p].result.cls # "CancelledError"

\* C33: a resource operation whose protected request is answered with a
\* status that is not a success, not 401 and not retried by the transport
\* reads the body text and fails with the generic API error carrying that
\* status and text; on the way it starts no recovery and no further attempt
\* and writes neither token.
C33_StatusFailure ==
  [][\A p \in Procs :
       /\ Rejected(p) =>
            /\ task'[p].pc = "body"
            /\ task'[p].nProt = task[p].nProt
            /\ task'[p].nRecover = task[p].nRecover
            /\ task'[p].nHttp = task[p].nHttp
            /\ token' = token /\ refreshToken' = refreshToken
       /\ ReadsFailure(p) =>
            /\ task[p].status \notin {401, 429} /\ task[p].status < 500
            /\ task'[p].pc = "done"
            /\ task'[p].result.cls = "ListonicApiError"
            /\ task'[p].result.status = task[p].status
            /\ \E x \in {"", "Not found"} :
                 task'[p].result.msg = "Failed: " \o x
            /\ task'[p].nProt = task[p].nProt
            /\ task'[p].nRecover = task[p].nRecover
            /\ task'[p].nHttp = task[p].nHttp
            /\ token' = token /\ refreshToken' = refreshToken]_vars

C33_Witness ==
  \E p \in Done :
    /\ task[p].op = "delete_item" /\ task[p].call = "data"
    /\ task[p].status = 201
    /\ task[p].result = [cls |-> "ListonicApiError",
                         msg |-> "Failed: Not found", status |-> 201]
    /\ task[p].nProt = 2 /\ task[p].nRecover = 1
    /\ token # NoToken

\* C34: every resource operation that was called ends, returning or
\* raising, given that every request is answered or fails and every sleep
\* ends; from its call to its end it issues at most 15 HTTP requests, makes
\* at most 2 protected transport calls and 1 recovery, and at most 3 requests
\* per transport call.
C34_Terminates ==
  /\ \A p \in Callers : task[p].pc # "idle" ~> task[p].pc = "done"
  /\ [](\A p \in Procs :
          /\ task[p].sent <= 15
          /\ task[p].nHttp <= 3
          /\ task[p].nProt <= 2 /\ task[p].nRecover <= 1)

C34_Witness ==
  \E p \in Done :
    /\ task[p].sent = 15 /\ task[p].nProt = 2 /\ task[p].nRecover = 1
    /\ task[p].ctx = "recover" /\ task[p].result.cls = "ok"

\* calls of async_update_todo_item
TodoCalls == {p \in Procs : task[p].role = "todo"}

\* the client calls p has made, as logged
CallsMade(p) ==
  {i \in DOMAIN task[p].log : task[p].log[i][1] = "call"}

\* C35: one call of async_update_todo_item makes at most one coordinator
\* mutation: none when the uid is missing or names no item of the entity's
\* list in the snapshot; check_item or uncheck_item, as the requested status
\* says, when that status differs in value from the item's checked flag;
\* else update_item with the description alone when one is given (an empty
\* one included); else none.
C35_OneMutation ==
  \A p \in TodoCalls :
    LET item == task[p].margs.item
        data == task[p].before
        id == CASE item.uid = <<"str", "5">> -> 5
                [] item.uid = <<"str", "7">> -> 7
                [] OTHER -> 0
        items == IF 1 \in DOMAIN data THEN data[1].items ELSE <<>>
        hits == {i \in DOMAIN items : id # 0 /\ items[i].id = id}
        flag == items[CHOOSE i \in hits : \A j \in hits : i <= j].is_checked
        completed == item.status = "completed"
        log == task[p].log
    IN /\ Cardinality(CallsMade(p)) <= 1
       /\ hits = {} => log = <<>> /\ task[p].pc = "done"
       /\ hits # {} /\ flag # <<"bool", completed>> =>
            /\ log[1] = <<"call", IF completed THEN "check_item"
                                               ELSE "uncheck_item", id>>
            /\ task[p].args =
                 [NoArgs EXCEPT !.item_id = id,
                                !.is_checked = <<"bool", completed>>]
       /\ hits # {} /\ flag = <<"bool", completed>> =>
            IF item.description # <<"null">>
              THEN /\ log[1] = <<"call", "update_item", id>>
                   /\ task[p].args =
                        [NoArgs EXCEPT !.item_id = id,
                                       !.description = item.description]
                   /\ task[p].payload = [Description |-> item.description]
              ELSE log = <<>> /\ task[p].pc = "done"

C35_Witness ==
  \E p \in TodoCalls :
    /\ task[p].pc = "done" /\ task[p].outcome.cls = "ok"
    /\ task[p].margs.item.uid = <<"str", "7">>
    /\ task[p].margs.item.status = "completed"
    /\ task[p].margs.item.description = <<"str", "">>
    /\ 1 \in DOMAIN task[p].before
    /\ Len(task[p].before[1].items) = 3
    /\ task[p].log = << <<"call", "update_item", 7>>, <<"returned">>,
                        <<"refresh">> >>

\* the credential step of p ends in this step
FlowEnding(p) ==
  /\ task'[p].role = "flow" /\ task'[p].pc = "done"
  /\ task[p].pc # "done"

\* C36: a credential step ends with an entry created (user step) or updated
\* (re-auth step) exactly when its authenticate() returned: the entry holds
\* the credentials entered (on re-auth the entry's own email and the entered
\* password); when authenticate() raised an Auth error the form is shown
\* again with invalid_auth, for an API error (RateLimit and connection
\* errors included) with cannot_connect, for any other exception with
\* unknown; in these cases, and whenever a step ends without authenticating,
\* the config entries are as they were.
C36_FlowOutcome ==
  [][/\ \A p \in Procs :
          FlowEnding(p) =>
            LET t == task'[p]
                r == t.result
                m == t.margs
            IN /\ r.cls = "ok" <=>
                    t.outcome.cls = "create_entry" \/
                    t.outcome = [cls |-> "abort", msg |-> "reauth_successful",
                                 status |-> 0]
               /\ r.cls = "ok" /\ m.step = "user" =>
                    /\ t.outcome = [cls |-> "create_entry",
                                    msg |-> m.input.email, status |-> 0]
                    /\ DOMAIN coord'.entries = DOMAIN coord.entries \cup {m.id}
                    /\ m.id \notin DOMAIN coord.entries
                    /\ coord'.entries[m.id] = m.input
                    /\ \A id \in DOMAIN coord.entries :
                         coord'.entries[id] = coord.entries[id]
               /\ r.cls = "ok" /\ m.step = "reauth_confirm" =>
                    /\ DOMAIN coord'.entries = DOMAIN coord.entries
                    /\ coord'.entries[m.id] =
                         [email |-> coord.entries[m.id].email,
                          password |-> m.input.password]
                    /\ \A id \in DOMAIN coord.entries \ {m.id} :
                         coord'.entries[id] = coord.entries[id]
               /\ r.cls = "ok" => token' # NoToken
               /\ r.cls # "ok" => coord'.entries = coord.entries
               /\ r.cls = "ListonicAuthError" =>
                    t.outcome = [cls |-> "form", msg |-> "invalid_auth",
                                 status |-> 0]
               /\ r.cls \in {"ListonicApiError", "ListonicRateLimitError"} =>
                    t.outcome = [cls |-> "form", msg |-> "cannot_connect",
                                 status |-> 0]
               /\ r.cls \notin {"ok", "none", "ListonicAuthError",
                                "ListonicApiError", "ListonicRateLimitError"} =>
                    t.outcome = [cls |-> "form", msg |-> "unknown",
                                 status |-> 0]
               /\ r.cls = "none" =>
                    t.outcome \in {[cls |-> "form", msg |-> "", status |-> 0],
                                   [cls |-> "abort", msg |-> "already_configured",
                                    status |-> 0]}
     /\ coord'.entries # coord.entries =>
          \E p \in Procs : FlowEnding(p) /\ task'[p].result.cls = "ok"]_vars

C36_Witness ==
  \E p \in Done :
    /\ task[p].role = "flow" /\ task[p].margs.step = "reauth_confirm"
    /\ task[p].result.cls = "ok"
    /\ task[p].outcome.msg = "reauth_successful"
    /\ DOMAIN coord.entries = {"a@x.io", "b@x.io"}
    /\ coord.entries["a@x.io"] = [email |-> "A@x.io", password |-> "new"]
    /\ coord.entries["b@x.io"].password = "old"

\* C37: whenever a protected request is issued, under any interleaving of
\* concurrent operations on one client, its bearer header holds a non-empty
\* token and that token is the client's access token at that moment.
C37_CurrentBearer ==
  [][\A p \in Procs :
       Passes(p) =>
         /\ task'[p].hdr # NoToken
         /\ task'[p].hdr = token']_vars

\* batches whose k-th delete has failed
FailedBatches ==
  {p \in Mutating : /\ task[p].mut = "async_delete_items"
                    /\ task[p].pc = "done" /\ task[p].outcome.cls # "ok"}

\* C38: when the delete of the k-th item of a batch fails, the deletes of
\* the k-1 earlier items have been issued in order and each has returned
\* successfully, nothing was issued after the k-th delete (no later delete,
\* no undo of an earlier one), no refresh is requested and the method ends
\* with the error of the k-th delete; the snapshot is as it was when the
\* batch was called, showing the deleted items too, and changes only when a
\* refresh has fetched the lists.
C38_BatchFailure ==
  /\ [](\A p \in FailedBatches :
          LET ids == task[p].margs.ids
              k == task[p].idx
              log == task[p].log
          IN /\ k \in 1..Len(ids)
             /\ Len(log) = 2 * k - 1
             /\ \A i \in 1..(k - 1) :
                  /\ log[2 * i - 1] = <<"call", "delete_item", ids[i]>>
                  /\ log[2 * i] = <<"returned">>
             /\ log[2 * k - 1] = <<"call", "delete_item", ids[k]>>
             /\ task[p].args.item_id = ids[k]
             /\ task[p].outcome = task[p].result
             /\ task[p].outcome.cls = "ListonicApiError"
             /\ coord.data = task[p].before)
  /\ [][coord'.data # coord.data =>
          \E q \in Procs : /\ task[q].role = "refresh" /\ task[q].pc = "body"
                           /\ task'[q].pc = "done"]_vars

C38_Witness ==
  \E p \in FailedBatches :
    /\ task[p].margs.ids = <<5, 7>> /\ task[p].idx = 2
    /\ task[p].log = << <<"call", "delete_item", 5>>, <<"returned">>,
                        <<"call", "delete_item", 7>> >>
    /\ task[p].status = 404
    /\ FindItem(coord.data, 1, 5) # <<>>

\* p's request has entered the rate-limited transport and is not yet issued
Pending(p) == task[p].pc \in {"sem_wait", "lock_wait", "gate_sleep"}

\* C39: under a fair event loop, with every request in flight answered or
\* failed, a non-exempt request that waits for a semaphore slot, for the
\* rate-limit lock or for the interval is eventually issued, with more
\* callers than slots and with callers backing off: a request stops waiting
\* only by being issued, and from some point on no request is waiting.
C39_EventuallyIssued ==
  /\ [][\A p \in Procs :
          Pending(p) /\ task'[p].pc \notin {"sem_wait", "lock_wait", "gate_sleep"}
            => task'[p].pc = "flight"]_vars
  /\ <>[](\A p \in Procs : ~Pending(p))

C39_Witness ==
  /\ Cardinality(SlotHolders) = MAX_CONCURRENT_REQUESTS
  /\ \E p \in Procs : task[p].pc = "sem_wait" /\ gate.semQ = <<p>>
  /\ \E p \in Procs : task[p].pc = "flight"

\* C40: across any sequence of refreshes the todo platform has at most one
\* entity per list id: the set of known list ids only grows, holds every id
\* of the snapshot and is the set of ids with an entity; an id first seen in
\* a snapshot gets its one entity in the step that completes that refresh,
\* and an id that left the snapshot and is back in it gets no second one.
C40_OneEntityPerList ==
  /\ [](coord.listening =>
          /\ DOMAIN coord.data \subseteq coord.known_list_ids
          /\ DOMAIN coord.entities = coord.known_list_ids
          /\ \A id \in DOMAIN coord.entities : coord.entities[id] = 1)
  /\ [][/\ coord.known_list_ids \subseteq coord'.known_list_ids
        /\ coord.listening =>
             /\ coord'.listening
             /\ coord'.known_list_ids =
                  coord.known_list_ids \cup DOMAIN coord'.data
             /\ \A id \in coord.known_list_ids :
                  coord'.entities[id] = coord.entities[id]]_vars

C40_Witness ==
  \E p \in Done :
    /\ task[p].role = "refresh" /\ task[p].result.cls = "ok"
    /\ 1 \in DOMAIN task[p].ents0 /\ 1 \notin DOMAIN task[p].before
    /\ 2 \notin DOMAIN task[p].ents0
    /\ DOMAIN coord.data = {1, 2}
    /\ coord.entities[1] = 1 /\ coord.entities[2] = 1

=============================================================================
